---- MODULE Spec2Model ----
(***************************************************************************)
(* hw-checker: the Live Session loop (src/tui.rs) and the discovery        *)
(* probes (src/discovery.rs) as state machines.                            *)
(*                                                                         *)
(*   Spec      the Live Session: run_app's loop over an App                *)
(*   SpecPci   load_pci_db line by line, then the lookup of get_pci_devices*)
(*   SpecRam   get_ram_details over a firmware table                       *)
(*   SpecAsm   get_hardware_report over a set of sources                   *)
(*                                                                         *)
(* Times are in milliseconds.  Text that the code inspects character by    *)
(* character is a sequence of one-character strings; text it only copies   *)
(* or compares is a string.  Option<T> is None or Some(x).                 *)
(***************************************************************************)
EXTENDS Integers, Sequences, FiniteSets, TLC

None == [some |-> FALSE]
Some(x) == [some |-> TRUE, val |-> x]

(***************************************************************************)
(* Bounds of the model                                                     *)
(***************************************************************************)
\* the largest number of logical cores of a working copy
MaxCores == 1

(***************************************************************************)
(* The Live Session (src/tui.rs)                                           *)
(***************************************************************************)
VARIABLES
    pc,            \* run_app's position: "draw", "poll", "read", "check", "done"
    res,           \* run_app's result: "none" while looping, "Ok", "Err"
    active_tab,    \* App.active_tab
    report,        \* App.report, the working copy
    start_report,  \* the report handed to App::new (history)
    elapsed,       \* App.last_refresh.elapsed()
    sys,           \* App.sys: the CPU and memory sampler's last sample
    networks,      \* App.networks: the interface map's last sample, keyed by name
    uptime_src,    \* what System::uptime() last returned
    gap,           \* time since the last completed refresh or session start (history)
    event,         \* the event event::read returned in this iteration (history)
    prev_tab,      \* active_tab when this iteration began (history)
    last_op        \* the last step of the loop (history)

tuiVars == <<pc, res, active_tab, report, start_report, elapsed, sys, networks,
             uptime_src, gap, event, prev_tab, last_op>>

\* load_pci_db and get_pci_devices (src/discovery.rs)
VARIABLES
    paths,                \* the two candidate files: NoFile or a sequence of lines
    pci_pc,               \* "open", "lines", "enumerate"
    path_idx,             \* the candidate path the for loop is at
    line_no,              \* the next line of the opened file
    db,                   \* the table: a function from <<vendor id, device id>>
    current_vendor_id,    \* Option<u16>
    current_vendor_name,  \* Option<String>
    devices               \* get_pci_devices' result so far

pciVars == <<paths, pci_pc, path_idx, line_no, db, current_vendor_id,
             current_vendor_name, devices>>

\* get_ram_details (src/discovery.rs)
VARIABLES
    target_os,   \* the platform of the build: "linux" or another
    smbios,      \* table_load_from_device(): NoTable or a sequence of structures
    ram_pc,      \* "load", "iterate", "done"
    struct_idx,  \* the next structure of the table
    sticks       \* the sticks pushed so far

ramVars == <<target_os, smbios, ram_pc, struct_idx, sticks>>

\* get_hardware_report (src/discovery.rs)
VARIABLES
    host,     \* the sources the probes read
    asm_pc,   \* the probe get_hardware_report is about to run
    probed    \* the probes' results so far; the HardwareReport at the end

asmVars == <<host, asm_pc, probed>>

\* one mounted volume: get_disk_metadata and the StorageInfo closure (src/discovery.rs)
VARIABLES
    volume,     \* the volume, the platform and the build: what the closure reads
    disk_pc,    \* "parent", "attributes", "usage", "done", "panicked"
    parent_dev, \* parent_name, once derived
    metadata,   \* get_disk_metadata's result
    storage     \* the StorageInfo

diskVars == <<volume, disk_pc, parent_dev, metadata, storage>>

\* get_battery_info (src/discovery.rs)
VARIABLES
    supply_dir,    \* the platform and /sys/class/power_supply: Err or its entries
    bat_pc,        \* "read_dir", "entries", "done"
    entry_idx,     \* the next entry of the directory
    batteries      \* the batteries pushed so far

batVars == <<supply_dir, bat_pc, entry_idx, batteries>>

\* main (src/main.rs)
VARIABLES
    args,      \* Args::parse()
    main_pc,   \* "config", "report", "output", "done"
    calls,     \* the functions main has called, in order (history)
    exit       \* main's result: "none" while running, "Ok", "Err"

mainVars == <<args, main_pc, calls, exit>>

\* run_tui (src/tui.rs): the terminal around the session
VARIABLES
    terminal,    \* raw mode, alternate screen, mouse capture, cursor visibility
    tui_pc,      \* the statement run_tui is about to execute
    printed,     \* whether run_tui printed the error of run_app
    tui_result   \* run_tui's result: "none" while running, "Ok", "Err"

termVars == <<terminal, tui_pc, printed, tui_result>>

\* get_cpu_caches (src/discovery.rs)
VARIABLES
    cache_params,  \* cpuid.get_cache_parameters(): None or the enumerated entries
    cache_pc,      \* "entries", "done"
    cache_idx,     \* the next entry of the enumeration
    cache_labels   \* (l1, l2, l3)

cacheVars == <<cache_params, cache_pc, cache_idx, cache_labels>>

vars == <<tuiVars, pciVars, ramVars, asmVars, diskVars, batVars, mainVars, termVars, cacheVars>>
nonTui == <<pciVars, ramVars, asmVars, diskVars, batVars, mainVars, termVars, cacheVars>>
nonPci == <<tuiVars, ramVars, asmVars, diskVars, batVars, mainVars, termVars, cacheVars>>
nonRam == <<tuiVars, pciVars, asmVars, diskVars, batVars, mainVars, termVars, cacheVars>>
nonAsm == <<tuiVars, pciVars, ramVars, diskVars, batVars, mainVars, termVars, cacheVars>>
nonDisk == <<tuiVars, pciVars, ramVars, asmVars, batVars, mainVars, termVars, cacheVars>>
nonBat == <<tuiVars, pciVars, ramVars, asmVars, diskVars, mainVars, termVars, cacheVars>>
nonMain == <<tuiVars, pciVars, ramVars, asmVars, diskVars, batVars, termVars, cacheVars>>
nonTerm == <<tuiVars, pciVars, ramVars, asmVars, diskVars, batVars, mainVars, cacheVars>>
nonTuiTerm == <<pciVars, ramVars, asmVars, diskVars, batVars, mainVars, cacheVars>>
nonCache == <<tuiVars, pciVars, ramVars, asmVars, diskVars, batVars, mainVars, termVars>>

TABS == <<" 1: Overview ", " 2: CPU & RAM ", " 3: Storage & Network ", " 4: PCI & USB ">>

\* Duration::from_millis(250) of event::poll
PollMillis == 250
\* Duration::from_secs(1) of the refresh check
RefreshMillis == 1000

\* time a draw or an update may take
Delays == {0, 250}

\* KeyCode values: the ones run_app matches and some it does not
KeyCodes == {"q", "Esc", "Right", "Tab", "Left", "1", "2", "3", "4", "Q"}
\* crossterm events: Event::Key(code) and the others
Events == [type : {"Key"}, code : KeyCodes] \cup {[type |-> "Mouse"], [type |-> "Resize"]}
NoEvent == [type |-> "none"]

Running == res = "none"
Terminated == res = "Ok"

---------------------------------------------------------------------------
\* The reports a session may start from

\* What the samplers return in sampling round k: every core and every
\* interface has its own reading, and the readings differ from round to round
Rounds == {1, 2}
CpuReading(i, k) == [usage |-> 10 * i + k, frequency |-> 1000 * k + i]
MemReading(k) == [used |-> 4 + k, free |-> 12 - k, swap_used |-> k]
UptimeReading(k) == 100 + k
NetReading(n, k) ==
    IF n = "lo" THEN [received |-> 5 + k, transmitted |-> 5 + k]
                ELSE [received |-> 70 + k, transmitted |-> 80 + k]
IfNames == {"eth0", "lo"}

CpuInfo(u, f) ==
    [model |-> "Model X", vendor_id |-> "GenuineIntel", brand |-> "GenuineIntel",
     cores |-> 1, frequency |-> f, usage |-> u,
     l1_cache |-> Some("64 KB"), l2_cache |-> Some("512 KB"), l3_cache |-> None]

NetworkInfo(n, r, t) ==
    [name |-> n, received |-> r, transmitted |-> t, mac_address |-> "02:00:00:00:00:01"]

NetLists == {<<NetworkInfo("lo", 1, 1)>>,
             <<NetworkInfo("eth0", 2, 3), NetworkInfo("lo", 1, 1)>>}

StartReport(n, nets) ==
    [os_name |-> "Linux", os_version |-> "1", kernel_version |-> "6.1",
     hostname |-> "host", uptime |-> 99,
     cpu |-> [i \in 1..n |-> CpuInfo(50, 1600)],
     ram |-> [total |-> 16, used |-> 8, free |-> 8, swap_total |-> 2, swap_used |-> 0,
              sticks |-> <<[manufacturer |-> Some("Samsung"), part_number |-> None,
                            serial_number |-> Some("S1"), speed |-> Some(3200)]>>],
     storage |-> <<[name |-> "sda1", mount_point |-> "/", total |-> 100, used |-> 40,
                    free |-> 60, filesystem |-> "ext4", vendor |-> None,
                    model_name |-> Some("Disk"), serial_number |-> None,
                    disk_type |-> Some("SSD"), interface |-> Some("SATA/SAS")]>>,
     network |-> nets,
     usb |-> <<[bus |-> 1, address |-> 2, vendor_id |-> 7531, product_id |-> 2,
                manufacturer |-> None, product |-> None]>>,
     pci |-> <<[slot |-> "00:02.0", vendor_id |-> 32902, device_id |-> 5,
                vendor_name |-> Some("Intel"), device_name |-> None, class_name |-> None]>>,
     motherboard |-> Some([vendor |-> "ACME", product |-> "B1", bios_vendor |-> "AMI",
                           bios_version |-> "1.0", bios_date |-> "01/01/2024"]),
     battery |-> <<[name |-> "BAT0", status |-> "Charging", capacity |-> 80]>>]

StartReports == {StartReport(n, nets) : n \in 0..MaxCores, nets \in NetLists}

\* The samples a refresh may find: any number of cores up to one more than a
\* working copy holds, any set of interfaces
SysSample(n, k) == [cpus |-> [i \in 1..n |-> CpuReading(i, k)], mem |-> MemReading(k)]
NetSample(names, k) == [n \in names |-> NetReading(n, k)]

---------------------------------------------------------------------------
\* UpdateCpu also resetting the L1 label of the cores it patches
UpdateCpuDropsCache(cpu, cpus) ==
    [i \in DOMAIN cpu |->
        IF i \in DOMAIN cpus
        THEN [cpu[i] EXCEPT !.usage = cpus[i].usage, !.frequency = cpus[i].frequency,
                            !.l1_cache = Some("0 KB")]
        ELSE cpu[i]]

\* UpdateCpu zeroing the cores the sample has no entry for
UpdateCpuResetAbsent(cpu, cpus) ==
    [i \in DOMAIN cpu |->
        IF i \in DOMAIN cpus
        THEN [cpu[i] EXCEPT !.usage = cpus[i].usage, !.frequency = cpus[i].frequency]
        ELSE [cpu[i] EXCEPT !.usage = 0, !.frequency = 0]]

\* App::update_metrics, the CPU loop: report.cpu.get_mut(i) for each sampled core
UpdateCpu(cpu, cpus) ==
    [i \in DOMAIN cpu |->
        IF i \in DOMAIN cpus
        THEN [cpu[i] EXCEPT !.usage = cpus[i].usage, !.frequency = cpus[i].frequency]
        ELSE cpu[i]]

\* UpdateNetwork with an interface missing from the sample reset to zero
UpdateNetworkResetAbsent(network, nets) ==
    [i \in DOMAIN network |->
        IF network[i].name \in DOMAIN nets
        THEN [network[i] EXCEPT !.received = nets[network[i].name].received,
                                !.transmitted = nets[network[i].name].transmitted]
        ELSE [network[i] EXCEPT !.received = 0, !.transmitted = 0]]

\* App::update_metrics, the network loop: find the interface by name
UpdateNetwork(network, nets) ==
    [i \in DOMAIN network |->
        IF network[i].name \in DOMAIN nets
        THEN [network[i] EXCEPT !.received = nets[network[i].name].received,
                                !.transmitted = nets[network[i].name].transmitted]
        ELSE network[i]]

\* update_metrics storing the used swap in swap_total
update_metrics_swap_total(r, s, n, u) ==
    [r EXCEPT !.cpu = UpdateCpu(r.cpu, s.cpus),
              !.ram = [r.ram EXCEPT !.used = s.mem.used, !.free = s.mem.free,
                                    !.swap_total = s.mem.swap_used],
              !.uptime = u,
              !.network = UpdateNetwork(r.network, n)]

\* App::update_metrics on the working copy r, after the three refresh calls
\* left s in App.sys, n in App.networks and System::uptime() returns u
update_metrics(r, s, n, u) ==
    [r EXCEPT !.cpu = UpdateCpu(r.cpu, s.cpus),
              !.ram = [r.ram EXCEPT !.used = s.mem.used, !.free = s.mem.free,
                                    !.swap_used = s.mem.swap_used],
              !.uptime = u,
              !.network = UpdateNetwork(r.network, n)]

\* IsQuitKey matching the letter in either case
IsQuitKeyAnyCase(code) == code \in {"q", "Q", "Esc"}

\* the quit arm of run_app's match
IsQuitKey(code) == code \in {"q", "Esc"}

\* NextTab with the digit k selecting index k
NextTabDigitIsIndex(code, tab) ==
    CASE code \in {"Right", "Tab"} -> (tab + 1) % Len(TABS)
      [] code = "Left" -> IF tab > 0 THEN tab - 1 ELSE Len(TABS) - 1
      [] code = "1" -> 1
      [] code = "2" -> 2
      [] code = "3" -> 3
      [] code = "4" -> 0
      [] OTHER -> tab

\* NextTab with Right and Tab adding one without the modulo
NextTabNoModulo(code, tab) ==
    CASE code \in {"Right", "Tab"} -> tab + 1
      [] code = "Left" -> IF tab > 0 THEN tab - 1 ELSE Len(TABS) - 1
      [] code = "1" -> 0
      [] code = "2" -> 1
      [] code = "3" -> 2
      [] code = "4" -> 3
      [] OTHER -> tab

\* NextTab with Left stopping at the first tab
NextTabNoWrap(code, tab) ==
    CASE code \in {"Right", "Tab"} -> (tab + 1) % Len(TABS)
      [] code = "Left" -> IF tab > 0 THEN tab - 1 ELSE 0
      [] code = "1" -> 0
      [] code = "2" -> 1
      [] code = "3" -> 2
      [] code = "4" -> 3
      [] OTHER -> tab

\* the tab arms of run_app's match on key.code
NextTab(code, tab) ==
    CASE code \in {"Right", "Tab"} -> (tab + 1) % Len(TABS)
      [] code = "Left" -> IF tab > 0 THEN tab - 1 ELSE Len(TABS) - 1
      [] code = "1" -> 0
      [] code = "2" -> 1
      [] code = "3" -> 2
      [] code = "4" -> 3
      [] OTHER -> tab

\* RefreshDue with a strict comparison
RefreshDueStrict(e) == e > RefreshMillis

\* the refresh check: last_refresh.elapsed() >= Duration::from_secs(1)
RefreshDue(e) == e >= RefreshMillis

---------------------------------------------------------------------------
\* App::new, then run_app is entered.  The samplers hold their first sample;
\* its values are never copied into the report (update_metrics refreshes first).
TuiInit ==
    /\ pc = "draw"
    /\ res = "none"
    /\ active_tab = 0
    /\ start_report \in StartReports
    /\ report = start_report
    /\ elapsed = 0
    /\ sys = SysSample(Len(start_report.cpu), 0)
    /\ networks = NetSample({start_report.network[i].name : i \in DOMAIN start_report.network}, 0)
    /\ uptime_src = start_report.uptime
    /\ gap = 0
    /\ event = NoEvent
    /\ prev_tab = 0
    /\ last_op = "new"

\* d milliseconds pass
Pass(d) ==
    /\ elapsed' = elapsed + d
    /\ gap' = gap + d

samplers == <<sys, networks, uptime_src>>

\* terminal.draw(|f| ui(f, &app))? succeeds
Draw ==
    /\ pc = "draw"
    /\ \E d \in Delays : Pass(d)
    /\ pc' = "poll"
    /\ last_op' = "draw"
    /\ UNCHANGED <<res, active_tab, report, start_report, samplers, event, prev_tab>>
    /\ UNCHANGED nonTui

\* terminal.draw fails: run_app returns the error
DrawFail ==
    /\ pc = "draw"
    /\ pc' = "done"
    /\ res' = "Err"
    /\ last_op' = "draw_err"
    /\ UNCHANGED <<active_tab, report, start_report, elapsed, samplers, gap, event, prev_tab>>
    /\ UNCHANGED nonTui

\* event::poll returns Ok(true): an event is ready before the timeout
PollReady ==
    /\ pc = "poll"
    /\ pc' = "read"
    /\ last_op' = "poll"
    /\ UNCHANGED <<res, active_tab, report, start_report, elapsed, samplers, gap, event, prev_tab>>
    /\ UNCHANGED nonTui

\* PollTimeout going back to the wait, past the refresh check and the redraw
PollTimeoutWaitsAgain ==
    /\ pc = "poll"
    /\ Pass(PollMillis)
    /\ pc' = "poll"
    /\ last_op' = "timeout"
    /\ UNCHANGED <<res, active_tab, report, start_report, samplers, event, prev_tab>>
    /\ UNCHANGED nonTui

\* event::poll returns Ok(false) after the poll duration
PollTimeout ==
    /\ pc = "poll"
    /\ Pass(PollMillis)
    /\ pc' = "check"
    /\ last_op' = "timeout"
    /\ UNCHANGED <<res, active_tab, report, start_report, samplers, event, prev_tab>>
    /\ UNCHANGED nonTui

\* event::poll fails
PollFail ==
    /\ pc = "poll"
    /\ pc' = "done"
    /\ res' = "Err"
    /\ last_op' = "poll_err"
    /\ UNCHANGED <<active_tab, report, start_report, elapsed, samplers, gap, event, prev_tab>>
    /\ UNCHANGED nonTui

\* ReadKey with a handled key restarting the refresh interval
ReadKeyRestartsInterval ==
    /\ pc = "read"
    /\ \E code \in KeyCodes :
          /\ event' = [type |-> "Key", code |-> code]
          /\ IF IsQuitKey(code)
             THEN /\ pc' = "done"
                  /\ res' = "Ok"
                  /\ last_op' = "quit"
                  /\ UNCHANGED active_tab
             ELSE /\ pc' = "check"
                  /\ active_tab' = NextTab(code, active_tab)
                  /\ last_op' = "key"
                  /\ UNCHANGED res
    /\ elapsed' = 0
    /\ gap' = 0
    /\ UNCHANGED <<report, start_report, samplers, prev_tab>>
    /\ UNCHANGED nonTui

\* event::read returns a key event and the match on key.code runs
ReadKey ==
    /\ pc = "read"
    /\ \E code \in KeyCodes :
          /\ event' = [type |-> "Key", code |-> code]
          /\ IF IsQuitKey(code)
             THEN /\ pc' = "done"
                  /\ res' = "Ok"
                  /\ last_op' = "quit"
                  /\ UNCHANGED active_tab
             ELSE /\ pc' = "check"
                  /\ active_tab' = NextTab(code, active_tab)
                  /\ last_op' = "key"
                  /\ UNCHANGED res
    /\ UNCHANGED <<report, start_report, elapsed, samplers, gap, prev_tab>>
    /\ UNCHANGED nonTui

\* event::read returns an event that is not a key event
ReadOther ==
    /\ pc = "read"
    /\ \E e \in Events : e.type # "Key" /\ event' = e
    /\ pc' = "check"
    /\ last_op' = "other"
    /\ UNCHANGED <<res, active_tab, report, start_report, elapsed, samplers, gap, prev_tab>>
    /\ UNCHANGED nonTui

\* event::read fails
ReadFail ==
    /\ pc = "read"
    /\ pc' = "done"
    /\ res' = "Err"
    /\ last_op' = "read_err"
    /\ UNCHANGED <<active_tab, report, start_report, elapsed, samplers, gap, event, prev_tab>>
    /\ UNCHANGED nonTui

\* Refresh going on to the wait without the redraw
RefreshNoRedraw ==
    /\ pc = "check"
    /\ RefreshDue(elapsed)
    /\ \E k \in Rounds :
          /\ \E n \in 0..(MaxCores + 1) : sys' = SysSample(n, k)
          /\ \E names \in SUBSET IfNames : networks' = NetSample(names, k)
          /\ uptime_src' = UptimeReading(k)
    /\ report' = update_metrics(report, sys', networks', uptime_src')
    /\ elapsed' = 0
    /\ gap' = 0
    /\ pc' = "poll"
    /\ event' = NoEvent
    /\ prev_tab' = active_tab
    /\ last_op' = "refresh"
    /\ UNCHANGED <<res, active_tab, start_report>>
    /\ UNCHANGED nonTui

\* the check finds a second elapsed: app.update_metrics() resamples, patches
\* the working copy and resets last_refresh
Refresh ==
    /\ pc = "check"
    /\ RefreshDue(elapsed)
    /\ \E k \in Rounds :
          /\ \E n \in 0..(MaxCores + 1) : sys' = SysSample(n, k)
          /\ \E names \in SUBSET IfNames : networks' = NetSample(names, k)
          /\ uptime_src' = UptimeReading(k)
    /\ report' = update_metrics(report, sys', networks', uptime_src')
    /\ elapsed' = 0
    /\ gap' = 0
    /\ pc' = "draw"
    /\ event' = NoEvent
    /\ prev_tab' = active_tab
    /\ last_op' = "refresh"
    /\ UNCHANGED <<res, active_tab, start_report>>
    /\ UNCHANGED nonTui

\* the check finds less than a second elapsed
SkipRefresh ==
    /\ pc = "check"
    /\ ~RefreshDue(elapsed)
    /\ pc' = "draw"
    /\ event' = NoEvent
    /\ prev_tab' = active_tab
    /\ last_op' = "skip"
    /\ UNCHANGED <<res, active_tab, report, start_report, elapsed, samplers, gap>>
    /\ UNCHANGED nonTui

\* the Live Session is not running
TuiIdle ==
    /\ pc = "off" /\ res = "none" /\ active_tab = 0
    /\ report = <<>> /\ start_report = <<>>
    /\ elapsed = 0 /\ sys = <<>> /\ networks = <<>> /\ uptime_src = 0
    /\ gap = 0 /\ event = NoEvent /\ prev_tab = 0 /\ last_op = "off"

PciIdle ==
    /\ paths = <<>> /\ pci_pc = "off" /\ path_idx = 1 /\ line_no = 1
    /\ db = <<>> /\ current_vendor_id = None /\ current_vendor_name = None
    /\ devices = <<>>

RamIdle ==
    /\ target_os = "linux" /\ smbios = <<>> /\ ram_pc = "off" /\ struct_idx = 1
    /\ sticks = <<>>

AsmIdle == host = <<>> /\ asm_pc = "off" /\ probed = <<>>

DiskIdle ==
    /\ volume = <<>> /\ disk_pc = "off" /\ parent_dev = <<>> /\ metadata = <<>>
    /\ storage = <<>>

BatIdle == supply_dir = <<>> /\ bat_pc = "off" /\ entry_idx = 1 /\ batteries = <<>>

MainIdle == args = <<>> /\ main_pc = "off" /\ calls = <<>> /\ exit = "none"

\* the terminal as run_tui finds it: cooked mode, main screen, cursor shown
NormalTerminal == [raw |-> FALSE, alternate |-> FALSE, mouse |-> FALSE, cursor |-> TRUE]

TermIdle ==
    /\ terminal = NormalTerminal /\ tui_pc = "off" /\ printed = FALSE
    /\ tui_result = "none"

CacheIdle ==
    /\ cache_params = <<>> /\ cache_pc = "off" /\ cache_idx = 1
    /\ cache_labels = <<>>

OthersIdle == TermIdle /\ CacheIdle

\* the probes and main that a specification leaves out
ProbesIdle == DiskIdle /\ BatIdle /\ MainIdle /\ OthersIdle

Init == TuiInit /\ PciIdle /\ RamIdle /\ AsmIdle /\ ProbesIdle

Next ==
    \/ Draw
    \/ DrawFail
    \/ PollReady
    \/ PollTimeout
    \/ PollFail
    \/ ReadKey
    \/ ReadOther
    \/ ReadFail
    \/ Refresh
    \/ SkipRefresh

Spec == Init /\ [][Next]_vars

\* the monotonic clock advances: a draw or a timed-out wait that takes time
TimePasses == (Draw \/ PollTimeout) /\ elapsed' > elapsed

\* the loop keeps running, and time does not stand still for ever
Fairness == WF_vars(Next) /\ SF_vars(TimePasses)

\* a session on one report: its contents do not steer the loop
InitFair == Init /\ start_report = StartReport(MaxCores, <<NetworkInfo("lo", 1, 1)>>)

SpecFair == InitFair /\ [][Next]_vars /\ Fairness

---------------------------------------------------------------------------
\* run_tui: the terminal is set up, run_app runs, the terminal is restored

\* what a failed execute! leaves of its two commands: the first one may have
\* been written before the failure
PartlyApplied(t, field, val) == {t, [t EXCEPT ![field] = val]}

TermInit ==
    /\ terminal = NormalTerminal
    /\ tui_pc = "enable_raw"
    /\ printed = FALSE
    /\ tui_result = "none"

\* a call followed by ?: on failure run_tui returns the error at once
Fails ==
    /\ tui_pc' = "returned"
    /\ tui_result' = "Err"
    /\ UNCHANGED printed

\* enable_raw_mode()?
EnableRawMode ==
    /\ tui_pc = "enable_raw"
    /\ \/ /\ terminal' = [terminal EXCEPT !.raw = TRUE]
          /\ tui_pc' = "enter"
          /\ UNCHANGED <<printed, tui_result>>
       \/ /\ Fails
          /\ UNCHANGED terminal
    /\ UNCHANGED nonTerm

\* execute!(stdout, EnterAlternateScreen, EnableMouseCapture)?
EnterScreen ==
    /\ tui_pc = "enter"
    /\ \/ /\ terminal' = [terminal EXCEPT !.alternate = TRUE, !.mouse = TRUE]
          /\ tui_pc' = "new_terminal"
          /\ UNCHANGED <<printed, tui_result>>
       \/ /\ Fails
          /\ terminal' \in PartlyApplied(terminal, "alternate", TRUE)
    /\ UNCHANGED nonTerm

\* Terminal::new(backend)?
NewTerminal ==
    /\ tui_pc = "new_terminal"
    /\ \/ /\ tui_pc' = "app"
          /\ UNCHANGED <<printed, tui_result>>
       \/ Fails
    /\ UNCHANGED terminal
    /\ UNCHANGED nonTerm

\* App::new(report), then run_app is entered; its draws hide the cursor
EnterApp ==
    /\ tui_pc = "app"
    /\ pc = "off"
    /\ pc' = "draw"
    /\ res' = "none"
    /\ active_tab' = 0
    /\ start_report' = StartReport(MaxCores, <<NetworkInfo("lo", 1, 1)>>)
    /\ report' = start_report'
    /\ elapsed' = 0
    /\ sys' = SysSample(Len(start_report'.cpu), 0)
    /\ networks' = NetSample({"lo"}, 0)
    /\ uptime_src' = start_report'.uptime
    /\ gap' = 0
    /\ event' = NoEvent
    /\ prev_tab' = 0
    /\ last_op' = "new"
    /\ terminal' = [terminal EXCEPT !.cursor = FALSE]
    /\ tui_pc' = "run_app"
    /\ UNCHANGED <<printed, tui_result>>
    /\ UNCHANGED nonTuiTerm

\* run_app has returned res; disable_raw_mode()?
DisableRawMode ==
    /\ tui_pc = "run_app"
    /\ pc = "done"
    /\ \/ /\ terminal' = [terminal EXCEPT !.raw = FALSE]
          /\ tui_pc' = "leave"
          /\ UNCHANGED <<printed, tui_result>>
       \/ /\ Fails
          /\ UNCHANGED terminal
    /\ UNCHANGED nonTerm

\* execute!(terminal.backend_mut(), LeaveAlternateScreen, DisableMouseCapture)?
LeaveScreen ==
    /\ tui_pc = "leave"
    /\ \/ /\ terminal' = [terminal EXCEPT !.alternate = FALSE, !.mouse = FALSE]
          /\ tui_pc' = "show_cursor"
          /\ UNCHANGED <<printed, tui_result>>
       \/ /\ Fails
          /\ terminal' \in PartlyApplied(terminal, "alternate", FALSE)
    /\ UNCHANGED nonTerm

\* terminal.show_cursor()?
ShowCursor ==
    /\ tui_pc = "show_cursor"
    /\ \/ /\ terminal' = [terminal EXCEPT !.cursor = TRUE]
          /\ tui_pc' = "print"
          /\ UNCHANGED <<printed, tui_result>>
       \/ /\ Fails
          /\ UNCHANGED terminal
    /\ UNCHANGED nonTerm

\* if let Err(err) = res { println!(..) }; Ok(())
ReturnOk ==
    /\ tui_pc = "print"
    /\ printed' = (res = "Err")
    /\ tui_result' = "Ok"
    /\ tui_pc' = "returned"
    /\ UNCHANGED terminal
    /\ UNCHANGED nonTerm

TermNext ==
    \/ EnableRawMode
    \/ EnterScreen
    \/ NewTerminal
    \/ EnterApp
    \/ Next
    \/ DisableRawMode
    \/ LeaveScreen
    \/ ShowCursor
    \/ ReturnOk

InitTerm ==
    /\ TermInit /\ TuiIdle /\ PciIdle /\ RamIdle /\ AsmIdle
    /\ DiskIdle /\ BatIdle /\ MainIdle /\ CacheIdle

SpecTerm == InitTerm /\ [][TermNext]_vars

(***************************************************************************)
(* Text                                                                    *)
(***************************************************************************)
\* char::is_whitespace, on the characters the model uses
IsSpace(c) == c \in {" ", "\t", "\n", "\r"}

RECURSIVE TrimStart(_)
TrimStart(s) == IF s # <<>> /\ IsSpace(Head(s)) THEN TrimStart(Tail(s)) ELSE s

RECURSIVE TrimEnd(_)
TrimEnd(s) ==
    IF s # <<>> /\ IsSpace(s[Len(s)]) THEN TrimEnd(SubSeq(s, 1, Len(s) - 1)) ELSE s

\* str::trim
Trim(s) == TrimEnd(TrimStart(s))

\* str::starts_with
StartsWith(s, p) == Len(s) >= Len(p) /\ SubSeq(s, 1, Len(p)) = p

\* str::splitn(2, ' '): the text before the first space, and the text after it if any
FirstSpace(s) ==
    IF \E i \in 1..Len(s) : s[i] = " "
    THEN CHOOSE i \in 1..Len(s) : s[i] = " " /\ \A j \in 1..(i - 1) : s[j] # " "
    ELSE 0
SplitHead(s) == IF FirstSpace(s) = 0 THEN s ELSE SubSeq(s, 1, FirstSpace(s) - 1)
SplitRest(s) ==
    IF FirstSpace(s) = 0 THEN None ELSE Some(SubSeq(s, FirstSpace(s) + 1, Len(s)))

HexLower == <<"0", "1", "2", "3", "4", "5", "6", "7", "8", "9", "a", "b", "c", "d", "e", "f">>
HexUpper == <<"0", "1", "2", "3", "4", "5", "6", "7", "8", "9", "A", "B", "C", "D", "E", "F">>
IsHexDigit(c) == \E i \in 1..16 : HexLower[i] = c \/ HexUpper[i] = c
HexVal(c) == (CHOOSE i \in 1..16 : HexLower[i] = c \/ HexUpper[i] = c) - 1

RECURSIVE HexNumber(_)
HexNumber(s) == IF s = <<>> THEN 0 ELSE 16 * HexNumber(SubSeq(s, 1, Len(s) - 1)) + HexVal(s[Len(s)])

\* u16::MAX
U16Max == 65535

Err == [ok |-> FALSE]
Ok(x) == [ok |-> TRUE, val |-> x]

\* u16::from_str_radix(s, 16): an optional + sign, then hex digits in either
\* case; the empty string, any other character and a value above u16::MAX fail
from_str_radix(s) ==
    LET digits == IF s # <<>> /\ Head(s) = "+" THEN Tail(s) ELSE s
    IN  IF digits = <<>> \/ \E i \in 1..Len(digits) : ~IsHexDigit(digits[i]) THEN Err
        ELSE IF HexNumber(digits) > U16Max THEN Err
        ELSE Ok(HexNumber(digits))

(***************************************************************************)
(* The PCI ID table (src/discovery.rs: load_pci_db, get_pci_devices)       *)
(***************************************************************************)
\* the longest PCI ID file, in lines
MaxLines == 3
\* the most PCI functions one enumeration yields
MaxFunctions == 1

\* the device id of a vendor's own entry
SentinelDevice == 65535

\* Lines of a PCI ID file
VendorA == <<"1", "a", " ", " ", "A">>
VendorB == <<"2", "b", " ", "B">>
VendorBadHex == <<"z", "z", " ", "Z">>
VendorNoName == <<"3", "c">>
DeviceD == <<"\t", "0", "1", " ", " ", "D">>
DeviceFfff == <<"\t", "f", "f", "f", "f", " ", "F">>
DeviceBadHex == <<"\t", "0", "g", " ", "G">>
ClassLine == <<"C", " ", "0", "1", " ", " ", "K">>
SubDevice == <<"\t", "\t", "0", "1", " ", "S">>
Comment == <<"#", " ", "c">>
Blank == <<" ">>

Lines == {VendorA, VendorB, VendorBadHex, VendorNoName, DeviceD, DeviceFfff,
          DeviceBadHex, ClassLine, SubDevice, Comment, Blank}

Files == UNION {[1..n -> Lines] : n \in 0..MaxLines}

\* fs::File::open(path): no file, or a file with its lines
NoFile == [open |-> FALSE]
File(lines) == [open |-> TRUE, lines |-> lines]
\* what the second candidate path holds when there is a file
OtherFile == File(<<<<"2", "b", " ", "X">>, <<"\t", "0", "1", " ", "Y">>>>)

\* the functions PciInfo::enumerate_pci yields: <<vendor id, device id>>
PciFunctions == {<<26, 1>>, <<26, 2>>, <<26, 65535>>, <<43, 1>>, <<60, 1>>}

\* HashMap::insert
Insert(d, key, val) == [k \in DOMAIN d \cup {key} |-> IF k = key THEN val ELSE d[k]]

\* the lines the loop passes over: blank, comment, class
SkipLine(line) ==
    Trim(line) = <<>> \/ StartsWith(line, <<"#">>) \/ StartsWith(line, <<"C">>)

\* the device branch: insert under the current vendor, if there is one
DeviceLine(line, d, vid, vname) ==
    LET content == Trim(line)
        id == from_str_radix(SplitHead(content))
        name == SplitRest(content)
    IN  IF vid.some /\ id.ok /\ name.some
        THEN [db |-> Insert(d, <<vid.val, id.val>>,
                            [vendor |-> vname, device |-> Some(Trim(name.val))]),
              id |-> vid, name |-> vname]
        ELSE [db |-> d, id |-> vid, name |-> vname]

\* the vendor branch: a new current vendor and its own entry
VendorLine(line, d, vid, vname) ==
    LET id == from_str_radix(SplitHead(line))
        name == SplitRest(line)
    IN  IF id.ok /\ name.some
        THEN [db |-> Insert(d, <<id.val, SentinelDevice>>,
                            [vendor |-> Some(Trim(name.val)), device |-> None]),
              id |-> Some(id.val), name |-> Some(Trim(name.val))]
        ELSE [db |-> d, id |-> vid, name |-> vname]

\* the body of the loop over the lines: the table and the current vendor after one line
parse_line(line, d, vid, vname) ==
    IF SkipLine(line) THEN [db |-> d, id |-> vid, name |-> vname]
    ELSE IF StartsWith(line, <<"\t", "\t">>) THEN [db |-> d, id |-> vid, name |-> vname]
    ELSE IF StartsWith(line, <<"\t">>) THEN DeviceLine(line, d, vid, vname)
    ELSE VendorLine(line, d, vid, vname)

\* get_pci_devices' lookup: the exact pair, else the vendor's own entry for
\* the vendor name only, else nothing
Lookup(d, v_id, d_id) ==
    IF <<v_id, d_id>> \in DOMAIN d
    THEN [v_name |-> d[<<v_id, d_id>>].vendor, d_name |-> d[<<v_id, d_id>>].device]
    ELSE IF <<v_id, SentinelDevice>> \in DOMAIN d
    THEN [v_name |-> d[<<v_id, SentinelDevice>>].vendor, d_name |-> None]
    ELSE [v_name |-> None, d_name |-> None]

\* PciDevice with the vendor id standing in for a missing vendor name
PciDeviceNamedById(v_id, d_id, names) ==
    [slot |-> "00:00.0", vendor_id |-> v_id, device_id |-> d_id,
     vendor_name |-> IF names.v_name.some THEN names.v_name ELSE Some(v_id),
     device_name |-> names.d_name, class_name |-> None]

\* PciDevice
PciDevice(v_id, d_id, names) ==
    [slot |-> "00:00.0", vendor_id |-> v_id, device_id |-> d_id,
     vendor_name |-> names.v_name, device_name |-> names.d_name, class_name |-> None]

\* load_pci_db starts: an empty table, the first candidate path
PciInit ==
    /\ paths \in {<<File(f), OtherFile>> : f \in Files}
                 \cup {<<NoFile, OtherFile>>, <<NoFile, NoFile>>}
    /\ pci_pc = "open"
    /\ path_idx = 1
    /\ line_no = 1
    /\ db = <<>>
    /\ current_vendor_id = None
    /\ current_vendor_name = None
    /\ devices = <<>>

\* fs::File::open(path) succeeds: the reader and a fresh current vendor
OpenPath ==
    /\ pci_pc = "open"
    /\ path_idx <= Len(paths)
    /\ paths[path_idx].open
    /\ pci_pc' = "lines"
    /\ line_no' = 1
    /\ current_vendor_id' = None
    /\ current_vendor_name' = None
    /\ UNCHANGED <<paths, path_idx, db, devices>>
    /\ UNCHANGED nonPci

\* fs::File::open(path) fails: the next candidate path
OpenFails ==
    /\ pci_pc = "open"
    /\ path_idx <= Len(paths)
    /\ ~paths[path_idx].open
    /\ path_idx' = path_idx + 1
    /\ UNCHANGED <<paths, pci_pc, line_no, db, current_vendor_id, current_vendor_name, devices>>
    /\ UNCHANGED nonPci

\* no candidate path is left: load_pci_db returns the table as it is
NoPathLeft ==
    /\ pci_pc = "open"
    /\ path_idx > Len(paths)
    /\ pci_pc' = "enumerate"
    /\ UNCHANGED <<paths, path_idx, line_no, db, current_vendor_id, current_vendor_name, devices>>
    /\ UNCHANGED nonPci

\* one line of the opened file
ParseLine ==
    /\ pci_pc = "lines"
    /\ line_no <= Len(paths[path_idx].lines)
    /\ LET r == parse_line(paths[path_idx].lines[line_no], db,
                           current_vendor_id, current_vendor_name)
       IN  /\ db' = r.db
           /\ current_vendor_id' = r.id
           /\ current_vendor_name' = r.name
    /\ line_no' = line_no + 1
    /\ UNCHANGED <<paths, pci_pc, path_idx, devices>>
    /\ UNCHANGED nonPci

\* EndOfFile without the break: the loop goes on to the next candidate path
EndOfFileNextPath ==
    /\ pci_pc = "lines"
    /\ line_no > Len(paths[path_idx].lines)
    /\ pci_pc' = "open"
    /\ path_idx' = path_idx + 1
    /\ UNCHANGED <<paths, line_no, db, current_vendor_id, current_vendor_name, devices>>
    /\ UNCHANGED nonPci

\* the end of the opened file: break, and load_pci_db returns
EndOfFile ==
    /\ pci_pc = "lines"
    /\ line_no > Len(paths[path_idx].lines)
    /\ pci_pc' = "enumerate"
    /\ UNCHANGED <<paths, path_idx, line_no, db, current_vendor_id, current_vendor_name, devices>>
    /\ UNCHANGED nonPci

\* get_pci_devices: one enumerated function is looked up and pushed
EnumerateFunction ==
    /\ pci_pc = "enumerate"
    /\ Len(devices) < MaxFunctions
    /\ \E fn \in PciFunctions :
          devices' = Append(devices, PciDevice(fn[1], fn[2], Lookup(db, fn[1], fn[2])))
    /\ UNCHANGED <<paths, pci_pc, path_idx, line_no, db, current_vendor_id, current_vendor_name>>
    /\ UNCHANGED nonPci

PciNext ==
    \/ OpenPath
    \/ OpenFails
    \/ NoPathLeft
    \/ ParseLine
    \/ EndOfFile
    \/ EnumerateFunction

InitPci == PciInit /\ TuiIdle /\ RamIdle /\ AsmIdle /\ ProbesIdle

SpecPci == InitPci /\ [][PciNext]_vars

(***************************************************************************)
(* Memory modules (src/discovery.rs: get_ram_details)                      *)
(***************************************************************************)
\* the most structures a firmware table holds
MaxStructs == 2

UpperCase == <<"A", "B", "C", "D", "E", "F", "G", "H", "I", "J", "K", "L", "M",
               "N", "O", "P", "Q", "R", "S", "T", "U", "V", "W", "X", "Y", "Z">>
LowerCase == <<"a", "b", "c", "d", "e", "f", "g", "h", "i", "j", "k", "l", "m",
               "n", "o", "p", "q", "r", "s", "t", "u", "v", "w", "x", "y", "z">>
LowerChar(c) ==
    IF \E i \in 1..26 : UpperCase[i] = c
    THEN LowerCase[CHOOSE i \in 1..26 : UpperCase[i] = c] ELSE c
UpperChar(c) ==
    IF \E i \in 1..26 : LowerCase[i] = c
    THEN UpperCase[CHOOSE i \in 1..26 : LowerCase[i] = c] ELSE c
\* str::to_lowercase, str::to_uppercase
to_lowercase(s) == [i \in 1..Len(s) |-> LowerChar(s[i])]
to_uppercase(s) == [i \in 1..Len(s) |-> UpperChar(s[i])]
\* str::contains
Contains(s, sub) ==
    \E i \in 1..(Len(s) - Len(sub) + 1) : SubSeq(s, i, i + Len(sub) - 1) = sub

DecDigits == <<"0", "1", "2", "3", "4", "5", "6", "7", "8", "9">>
\* char::is_digit(10)
is_digit(c) == \E i \in 1..10 : DecDigits[i] = c
DigitVal(c) == (CHOOSE i \in 1..10 : DecDigits[i] = c) - 1

\* the decimal text of a number, as {} and {:?} print it
RECURSIVE Decimal(_)
Decimal(n) ==
    IF n < 10 THEN <<DecDigits[n + 1]>> ELSE Append(Decimal(n \div 10), DecDigits[(n % 10) + 1])

RECURSIVE DecNumber(_)
DecNumber(s) == IF s = <<>> THEN 0 ELSE 10 * DecNumber(SubSeq(s, 1, Len(s) - 1)) + DigitVal(s[Len(s)])

\* str::parse::<u16> of a text of digits: the empty text and a value above u16::MAX fail
parse_u16(s) ==
    IF s = <<>> \/ \E i \in 1..Len(s) : ~is_digit(s[i]) THEN Err
    ELSE IF DecNumber(s) > U16Max THEN Err
    ELSE Ok(DecNumber(s))

\* smbioslib's MemorySpeed and its Debug text
SpeedUnknown == [kind |-> "Unknown"]
SpeedExtended == [kind |-> "SeeExtendedSpeed"]
MTs(n) == [kind |-> "MTs", n |-> n]
DebugSpeed(s) ==
    CASE s.kind = "Unknown" -> <<"U", "n", "k", "n", "o", "w", "n">>
      [] s.kind = "SeeExtendedSpeed" -> <<"S", "e", "e", "E", "x", "t", "e", "n", "d", "e", "d", "S", "p", "e", "e", "d">>
      [] s.kind = "MTs" -> <<"M", "T", "s", "(">> \o Decimal(s.n) \o <<")">>

\* the closure of lines 167-175 with the unwrap: the digits of the Debug text, parsed, 0 on failure
SpeedDigits(s) ==
    LET parsed == parse_u16(SelectSeq(DebugSpeed(s), is_digit))
    IN  IF parsed.ok THEN parsed.val ELSE 0

\* StickSpeed passing a zero on
StickSpeedKeepZero(speed) == IF speed.some THEN Some(SpeedDigits(speed.val)) ELSE None

\* RamStick.speed: configured_memory_speed().map(..) and the and_then of line 197
StickSpeed(speed) ==
    IF speed.some /\ SpeedDigits(speed.val) > 0 THEN Some(SpeedDigits(speed.val)) ELSE None

\* clean comparing the placeholder words without lowering the case
clean_case_sensitive(s) ==
    LET tr == Trim(s)
    IN  IF \/ tr = <<>>
           \/ tr = <<"u", "n", "k", "n", "o", "w", "n">>
           \/ tr = <<"n", "o", "n", "e">>
           \/ tr = <<"n", "o", "t", " ", "s", "p", "e", "c", "i", "f", "i", "e", "d">>
           \/ Contains(tr, <<"e", "m", "p", "t", "y">>)
           \/ tr = <<"0">>
        THEN None ELSE Some(tr)

\* the clean closure
clean(s) ==
    LET tr == Trim(s)
    IN  IF \/ tr = <<>>
           \/ to_lowercase(tr) = <<"u", "n", "k", "n", "o", "w", "n">>
           \/ to_lowercase(tr) = <<"n", "o", "n", "e">>
           \/ to_lowercase(tr) = <<"n", "o", "t", " ", "s", "p", "e", "c", "i", "f", "i", "e", "d">>
           \/ Contains(to_lowercase(tr), <<"e", "m", "p", "t", "y">>)
           \/ tr = <<"0">>
        THEN None ELSE Some(tr)

map_ram_manufacturer(id) ==
    LET id_upper == to_uppercase(id)
        has(code) == Contains(id_upper, code)
    IN  IF has(<<"0", "1", "9", "8">>) THEN <<"K", "i", "n", "g", "s", "t", "o", "n">>
        ELSE IF has(<<"0", "4", "C", "B">>) THEN <<"A", "D", "A", "T", "A">>
        ELSE IF has(<<"0", "0", "A", "D">>) \/ has(<<"8", "0", "A", "D">>) THEN <<"S", "K", " ", "H", "y", "n", "i", "x">>
        ELSE IF has(<<"0", "0", "C", "E">>) \/ has(<<"8", "0", "C", "E">>) THEN <<"S", "a", "m", "s", "u", "n", "g">>
        ELSE IF has(<<"0", "1", "2", "F">>) \/ has(<<"8", "1", "2", "F">>) THEN <<"M", "i", "c", "r", "o", "n">>
        ELSE IF has(<<"0", "2", "9", "E">>) \/ has(<<"8", "2", "9", "E">>) THEN <<"C", "o", "r", "s", "a", "i", "r">>
        ELSE IF has(<<"0", "4", "2", "3">>) \/ has(<<"8", "4", "2", "3">>) THEN <<"C", "r", "u", "c", "i", "a", "l">>
        ELSE IF has(<<"0", "5", "9", "B">>) \/ has(<<"8", "5", "9", "B">>) THEN <<"C", "r", "u", "c", "i", "a", "l">>
        ELSE id

\* the body of the loop over the table: the sticks after one structure
push_stick(st, s) ==
    IF s.struct_type = 17 /\ clean(s.manufacturer).some
    THEN Append(st, [manufacturer |-> Some(map_ram_manufacturer(clean(s.manufacturer).val)),
                     part_number |-> clean(s.part_number),
                     serial_number |-> clean(s.serial_number),
                     speed |-> StickSpeed(s.speed)])
    ELSE st

\* get_ram_details as a whole, on a loaded table
RECURSIVE ram_details(_)
ram_details(table) ==
    IF table = <<>> THEN <<>>
    ELSE push_stick(ram_details(SubSeq(table, 1, Len(table) - 1)), table[Len(table)])

\* The structures of a firmware table
Manufacturers == {<<"A", "c", "m", "e">>,
                  <<"8", "0", "c", "e">>,
                  <<>>,
                  <<" ", " ">>,
                  <<"U", "n", "k", "n", "o", "w", "n">>,
                  <<"N", "O", "N", "E">>,
                  <<" ", "N", "o", "t", " ", "S", "p", "e", "c", "i", "f", "i", "e", "d">>,
                  <<"D", "I", "M", "M", " ", "E", "m", "p", "t", "y">>,
                  <<"0">>,
                  <<" ", "0", " ">>,
                  <<"0", "0">>,
                  <<"n", "o", "n", "e", "1">>}
Speeds == {None, Some(SpeedUnknown), Some(SpeedExtended), Some(MTs(0)), Some(MTs(7)),
           Some(MTs(1600)), Some(MTs(65535))}
MemoryDevice(m, p, sn, sp) ==
    [struct_type |-> 17, manufacturer |-> m, part_number |-> p, serial_number |-> sn,
     speed |-> sp]
Structs ==
    {MemoryDevice(m, <<"K", "F", "3", "2">>, <<"1", "2", "A", "B">>, Some(MTs(3200))) : m \in Manufacturers}
    \cup {MemoryDevice(<<"A", "c", "m", "e">>, <<"K", "F", "3", "2">>, <<"1", "2", "A", "B">>, sp) : sp \in Speeds}
    \cup {MemoryDevice(<<"A", "c", "m", "e">>, <<"U", "n", "k", "n", "o", "w", "n">>, <<"0">>, Some(MTs(3200)))}
    \cup {[struct_type |-> 4, manufacturer |-> <<"A", "c", "m", "e">>, part_number |-> <<"K", "F", "3", "2">>,
           serial_number |-> <<"1", "2", "A", "B">>, speed |-> None]}

NoTable == [ok |-> FALSE]
Tables == {Ok(s) : s \in UNION {[1..n -> Structs] : n \in 0..MaxStructs}}

\* get_ram_details is entered; a build for another platform reads no table
RamInit ==
    /\ target_os \in {"linux", "other"}
    /\ smbios \in (IF target_os = "linux" THEN Tables \cup {NoTable} ELSE {NoTable})
    /\ ram_pc = "load"
    /\ struct_idx = 1
    /\ sticks = <<>>

\* not a Linux build: the block is compiled out and the empty list is returned
NotLinux ==
    /\ ram_pc = "load"
    /\ target_os # "linux"
    /\ ram_pc' = "done"
    /\ UNCHANGED <<target_os, smbios, struct_idx, sticks>>
    /\ UNCHANGED nonRam

\* table_load_from_device() returns the table
LoadTable ==
    /\ ram_pc = "load"
    /\ target_os = "linux"
    /\ smbios.ok
    /\ ram_pc' = "iterate"
    /\ UNCHANGED <<target_os, smbios, struct_idx, sticks>>
    /\ UNCHANGED nonRam

\* table_load_from_device() fails: the empty list is returned
LoadFails ==
    /\ ram_pc = "load"
    /\ target_os = "linux"
    /\ ~smbios.ok
    /\ ram_pc' = "done"
    /\ UNCHANGED <<target_os, smbios, struct_idx, sticks>>
    /\ UNCHANGED nonRam

\* one structure of the table
IterateStruct ==
    /\ ram_pc = "iterate"
    /\ struct_idx <= Len(smbios.val)
    /\ sticks' = push_stick(sticks, smbios.val[struct_idx])
    /\ struct_idx' = struct_idx + 1
    /\ UNCHANGED <<target_os, smbios, ram_pc>>
    /\ UNCHANGED nonRam

\* the table is exhausted: the sticks are returned
ReturnSticks ==
    /\ ram_pc = "iterate"
    /\ struct_idx > Len(smbios.val)
    /\ ram_pc' = "done"
    /\ UNCHANGED <<target_os, smbios, struct_idx, sticks>>
    /\ UNCHANGED nonRam

RamNext ==
    \/ NotLinux
    \/ LoadTable
    \/ LoadFails
    \/ IterateStruct
    \/ ReturnSticks

InitRam == RamInit /\ TuiIdle /\ PciIdle /\ AsmIdle /\ ProbesIdle

SpecRam == InitRam /\ [][RamNext]_vars

(***************************************************************************)
(* Report assembly: get_hardware_report and the probes it calls            *)
(***************************************************************************)
\* fs::read_to_string(path): Err, or Ok(content)
Unreadable == Err

\* char::is_numeric, on the characters of device names
is_numeric(c) == is_digit(c)

\* str::trim_end_matches(char::is_numeric)
RECURSIVE trim_end_numeric(_)
trim_end_numeric(s) ==
    IF s # <<>> /\ is_numeric(s[Len(s)]) THEN trim_end_numeric(SubSeq(s, 1, Len(s) - 1))
    ELSE s

\* str::rfind(c): the last position of c, counted from 1; 0 when there is none
rfind(s, c) ==
    IF \E i \in 1..Len(s) : s[i] = c
    THEN CHOOSE i \in 1..Len(s) : s[i] = c /\ \A j \in (i + 1)..Len(s) : s[j] # c
    ELSE 0

\* parent_name cutting an NVMe name at its first separator
parent_name_first_p(name) ==
    IF StartsWith(name, <<"s", "d">>) \/ StartsWith(name, <<"h", "d">>)
    THEN trim_end_numeric(name)
    ELSE IF rfind(name, "p") # 0 /\ StartsWith(name, <<"n", "v", "m", "e">>)
    THEN SubSeq(name, 1, (CHOOSE i \in 1..Len(name) :
                            name[i] = "p" /\ \A j \in 1..(i - 1) : name[j] # "p") - 1)
    ELSE name

\* the whole disk a volume's device belongs to
parent_name(name) ==
    IF StartsWith(name, <<"s", "d">>) \/ StartsWith(name, <<"h", "d">>)
    THEN trim_end_numeric(name)
    ELSE IF rfind(name, "p") # 0 /\ StartsWith(name, <<"n", "v", "m", "e">>)
    THEN SubSeq(name, 1, rfind(name, "p") - 1)
    ELSE name

\* /sys/block/<parent>/device/<attr>, read, trimmed; None when unreadable
read_block(block, parent, attr) ==
    IF parent \in DOMAIN block /\ block[parent][attr].ok
    THEN Some(Trim(block[parent][attr].val))
    ELSE None

disk_interface(parent) ==
    IF StartsWith(parent, <<"n", "v", "m", "e">>) THEN Some(<<"N", "V", "M", "e">>)
    ELSE IF StartsWith(parent, <<"s", "d">>) THEN Some(<<"S", "A", "T", "A", "/", "S", "A", "S">>)
    ELSE None

\* the Linux block of get_disk_metadata, from the parent name on
disk_metadata(block, parent_name_) ==
    [vendor |-> read_block(block, parent_name_, "vendor"),
     model |-> read_block(block, parent_name_, "model"),
     sn |-> read_block(block, parent_name_, "serial"),
     interface |-> disk_interface(parent_name_)]

\* the block of the other platforms
no_disk_metadata == [vendor |-> None, model |-> None, sn |-> None, interface |-> None]

get_disk_metadata(os, block, name) ==
    IF os = "linux" THEN disk_metadata(block, parent_name(name)) ELSE no_disk_metadata

\* the StorageInfo literal
StorageInfoOf(disk, meta, used) ==
    [name |-> disk.name, mount_point |-> disk.mount_point,
     total |-> disk.total_space,
     used |-> used,
     free |-> disk.available_space,
     filesystem |-> disk.file_system,
     vendor |-> meta.vendor, model_name |-> meta.model, serial_number |-> meta.sn,
     disk_type |-> Some(disk.kind), interface |-> meta.interface]

\* the StorageInfo of one mounted volume whose available space is within its total
StorageInfo(os, block, disk) ==
    StorageInfoOf(disk, get_disk_metadata(os, block, disk.name),
                  disk.total_space - disk.available_space)

\* one device of the USB list: a UsbDevice when its descriptor can be read,
\* with the strings only when the device opens and the string reads
UsbDevice(dev) ==
    [bus |-> dev.bus, address |-> dev.address,
     vendor_id |-> dev.vendor_id, product_id |-> dev.product_id,
     manufacturer |-> IF dev.open /\ dev.manufacturer.ok THEN Some(dev.manufacturer.val) ELSE None,
     product |-> IF dev.open /\ dev.product.ok THEN Some(dev.product.val) ELSE None]

RECURSIVE usb_list(_)
usb_list(list) ==
    IF list = <<>> THEN <<>>
    ELSE IF Head(list).descriptor THEN <<UsbDevice(Head(list))>> \o usb_list(Tail(list))
    ELSE usb_list(Tail(list))

\* usb: Err when the context or its device list fails
get_usb_devices(usb) == IF usb.ok THEN usb_list(usb.val) ELSE <<>>

\* load_pci_db over a whole file
RECURSIVE load_lines(_, _, _, _)
load_lines(lines, d, vid, vname) ==
    IF lines = <<>> THEN d
    ELSE LET r == parse_line(Head(lines), d, vid, vname)
         IN  load_lines(Tail(lines), r.db, r.id, r.name)

RECURSIVE load_pci_db(_)
load_pci_db(ps) ==
    IF ps = <<>> THEN <<>>
    ELSE IF Head(ps).open THEN load_lines(Head(ps).lines, <<>>, None, None)
    ELSE load_pci_db(Tail(ps))

\* functions: Err when enumerate_pci fails
get_pci_devices(ps, functions) ==
    IF functions.ok
    THEN [i \in 1..Len(functions.val) |->
            PciDevice(functions.val[i][1], functions.val[i][2],
                      Lookup(load_pci_db(ps), functions.val[i][1], functions.val[i][2]))]
    ELSE <<>>

\* /sys/class/dmi/id
DmiFiles == {"board_vendor", "board_name", "bios_vendor", "bios_version", "bios_date"}

\* read_sys: the trimmed content, "Unknown" when the file cannot be read
read_sys(dmi, path) == IF dmi[path].ok THEN Trim(dmi[path].val) ELSE <<"U", "n", "k", "n", "o", "w", "n">>

\* get_motherboard_info answering None when no attribute file is readable
get_motherboard_info_none_when_unreadable(os, dmi) ==
    IF os = "linux" /\ \E f \in DmiFiles : dmi[f].ok
    THEN Some([vendor |-> read_sys(dmi, "board_vendor"),
               product |-> read_sys(dmi, "board_name"),
               bios_vendor |-> read_sys(dmi, "bios_vendor"),
               bios_version |-> read_sys(dmi, "bios_version"),
               bios_date |-> read_sys(dmi, "bios_date")])
    ELSE None

get_motherboard_info(os, dmi) ==
    IF os = "linux"
    THEN Some([vendor |-> read_sys(dmi, "board_vendor"),
               product |-> read_sys(dmi, "board_name"),
               bios_vendor |-> read_sys(dmi, "bios_vendor"),
               bios_version |-> read_sys(dmi, "bios_version"),
               bios_date |-> read_sys(dmi, "bios_date")])
    ELSE None

\* str::parse::<u8>: an optional "+", then decimal digits, at most 255
U8Max == 255
parse_u8(s) ==
    LET digits == IF s # <<>> /\ Head(s) = "+" THEN Tail(s) ELSE s
    IN  IF digits = <<>> \/ \E i \in 1..Len(digits) : ~is_digit(digits[i]) THEN Err
        ELSE IF DecNumber(digits) > U8Max THEN Err
        ELSE Ok(DecNumber(digits))

\* one entry of /sys/class/power_supply whose name starts with BAT
BatteryInfo(entry) ==
    [name |-> entry.name,
     status |-> IF entry.status.ok THEN Trim(entry.status.val) ELSE <<"U", "n", "k", "n", "o", "w", "n">>,
     capacity |-> IF entry.capacity.ok /\ parse_u8(Trim(entry.capacity.val)).ok
                  THEN parse_u8(Trim(entry.capacity.val)).val ELSE 0]

RECURSIVE battery_list(_)
battery_list(entries) ==
    IF entries = <<>> THEN <<>>
    ELSE IF StartsWith(Head(entries).name, <<"B", "A", "T">>)
    THEN <<BatteryInfo(Head(entries))>> \o battery_list(Tail(entries))
    ELSE battery_list(Tail(entries))

\* power_supply: Err when the directory cannot be read
get_battery_info(os, power_supply) ==
    IF os = "linux" /\ power_supply.ok THEN battery_list(power_supply.val) ELSE <<>>

\* get_ram_details as get_hardware_report calls it
get_ram_details(os, table) == IF os = "linux" /\ table.ok THEN ram_details(table.val) ELSE <<>>

\* The sources of a host
\* get_cpu_caches' three labels
CacheProbes == {[l1 |-> None, l2 |-> None, l3 |-> None],
                [l1 |-> Some("64 KB"), l2 |-> Some("512 KB"), l3 |-> None]}

SmbiosSources ==
    {NoTable, Ok(<<>>),
     Ok(<<MemoryDevice(<<"8", "0", "c", "e">>, <<"K", "F", "3", "2">>, <<"1", "2", "A", "B">>, Some(MTs(3200)))>>)}

\* Disks::new_with_refreshed_list(): the mounted volumes
Disk(name, mount, total, available) ==
    [name |-> name, mount_point |-> mount, total_space |-> total,
     available_space |-> available, file_system |-> "ext4", kind |-> "SSD"]
DiskLists ==
    {<<>>,
     <<Disk(<<"s", "d", "a", "1">>, "/", 100, 60)>>,
     <<Disk(<<"n", "v", "m", "e", "0", "n", "1", "p", "2">>, "/", 500, 500)>>,
     <<Disk(<<"s", "d", "a", "1">>, "/", 100, 0), Disk(<<"t", "m", "p", "f", "s">>, "/tmp", 8, 8)>>}

\* /sys/block of a Linux host: the attribute files of its whole disks
SysBlock ==
    [p \in {<<"s", "d", "a">>, <<"n", "v", "m", "e", "0", "n", "1">>} |->
        IF p = <<"s", "d", "a">>
        THEN [model |-> Ok(<<"S", "T", "1", "0", "0", "0", " ", "\n">>), serial |-> Unreadable, vendor |-> Ok(<<"A", "T", "A", "\n">>)]
        ELSE [model |-> Ok(<<"P", "M", "9", "A", "1", "\n">>), serial |-> Ok(<<"S", "6", "\n">>), vendor |-> Unreadable]]
NoSysBlock == [p \in {} |-> Unreadable]

\* the devices of the USB context
UsbHub ==
    [descriptor |-> TRUE, open |-> TRUE, bus |-> 1, address |-> 1, vendor_id |-> 7531,
     product_id |-> 2, manufacturer |-> Ok("Linux"), product |-> Err]
UsbLocked ==
    [descriptor |-> TRUE, open |-> FALSE, bus |-> 1, address |-> 2, vendor_id |-> 1133,
     product_id |-> 5, manufacturer |-> Ok("Logi"), product |-> Ok("Mouse")]
UsbNoDescriptor ==
    [descriptor |-> FALSE, open |-> FALSE, bus |-> 1, address |-> 3, vendor_id |-> 0,
     product_id |-> 0, manufacturer |-> Err, product |-> Err]
UsbSources == {Err, Ok(<<>>), Ok(<<UsbHub>>), Ok(<<UsbNoDescriptor, UsbLocked>>)}

\* the PCI ID files and the functions on the bus
PciSources ==
    {[paths |-> <<NoFile, NoFile>>, functions |-> Ok(<<<<26, 1>>>>)],
     [paths |-> <<NoFile, File(<<VendorA, DeviceD>>)>>, functions |-> Ok(<<<<26, 1>>, <<43, 1>>>>)],
     [paths |-> <<File(<<VendorA, DeviceD>>), OtherFile>>, functions |-> Err]}

DmiText == <<" ", "A", "M", "I", "\n">>
DmiTrees ==
    {[f \in DmiFiles |-> IF f \in readable THEN Ok(DmiText) ELSE Unreadable] :
        readable \in {{}, DmiFiles, {"board_vendor"}, DmiFiles \ {"bios_date"}}}
NoDmi == [f \in DmiFiles |-> Unreadable]

\* the entries of /sys/class/power_supply
PowerSupplies ==
    {Err, Ok(<<>>),
     Ok(<<[name |-> <<"B", "A", "T", "0">>, status |-> Ok(<<"C", "h", "a", "r", "g", "i", "n", "g", "\n">>), capacity |-> Ok(<<"8", "0", "\n">>)]>>),
     Ok(<<[name |-> <<"A", "C">>, status |-> Unreadable, capacity |-> Unreadable],
          [name |-> <<"B", "A", "T", "1">>, status |-> Unreadable, capacity |-> Ok(<<"3", "0", "0", "\n">>)]>>)}

LinuxHosts ==
    [target_os : {"linux"}, cores : 1..MaxCores, caches : CacheProbes,
     smbios : SmbiosSources, disks : DiskLists, block : {SysBlock}, usb : UsbSources,
     pci : PciSources, dmi : DmiTrees, power_supply : PowerSupplies]
\* a host of another platform has none of the Linux trees
OtherHosts ==
    [target_os : {"other"}, cores : 1..MaxCores, caches : CacheProbes,
     smbios : {NoTable}, disks : DiskLists, block : {NoSysBlock}, usb : UsbSources,
     pci : PciSources, dmi : {NoDmi}, power_supply : {Err}]
Hosts == LinuxHosts \cup OtherHosts

\* a let binding of get_hardware_report
Bind(p, field, val) == [f \in DOMAIN p \cup {field} |-> IF f = field THEN val ELSE p[f]]

\* sysinfo::MINIMUM_CPU_UPDATE_INTERVAL, in milliseconds
MinCpuUpdateMillis == 200

\* the System of get_hardware_report after refresh_cpu_all number `samples`:
\* the sampled cores, the time the previous sample lies back (interval) and
\* the time slept since this sample (slept)
Sampler(n, k, samples, interval) ==
    [cpus |-> [i \in 1..n |-> CpuReading(i, k)], samples |-> samples,
     interval |-> interval, slept |-> 0]

\* the closure over sys.cpus()
cpu_info(cpus, caches) ==
    [i \in DOMAIN cpus |-> [CpuInfo(cpus[i].usage, cpus[i].frequency)
                        EXCEPT !.l1_cache = caches.l1, !.l2_cache = caches.l2,
                               !.l3_cache = caches.l3]]

\* the closure over Networks::new_with_refreshed_list()
network_info ==
    <<NetworkInfo("eth0", NetReading("eth0", 1).received, NetReading("eth0", 1).transmitted),
      NetworkInfo("lo", NetReading("lo", 1).received, NetReading("lo", 1).transmitted)>>

\* the HardwareReport literal
HardwareReport(p) ==
    [os_name |-> "Linux", os_version |-> "1", kernel_version |-> "6.1",
     hostname |-> "host", uptime |-> UptimeReading(1),
     cpu |-> p.cpu,
     ram |-> [total |-> 16, used |-> MemReading(1).used, free |-> MemReading(1).free,
              swap_total |-> 2, swap_used |-> MemReading(1).swap_used,
              sticks |-> p.ram_sticks],
     storage |-> p.storage, network |-> p.network, usb |-> p.usb, pci |-> p.pci,
     motherboard |-> p.motherboard, battery |-> p.battery]

\* get_hardware_report is called
AsmInit ==
    /\ host \in Hosts
    /\ asm_pc = "sample"
    /\ probed = <<>>

\* the first sys.refresh_cpu_all()
FirstSample ==
    /\ asm_pc = "sample"
    /\ probed' = Bind(probed, "sys", Sampler(host.cores, 0, 1, 0))
    /\ asm_pc' = "sleep"
    /\ UNCHANGED host
    /\ UNCHANGED nonAsm

\* sleep without the pause between the two samples
SleepNoPause ==
    /\ asm_pc = "sleep"
    /\ \E d \in Delays :
          probed' = Bind(probed, "sys", [probed.sys EXCEPT !.slept = d])
    /\ asm_pc' = "resample"
    /\ UNCHANGED host
    /\ UNCHANGED nonAsm

\* std::thread::sleep(sysinfo::MINIMUM_CPU_UPDATE_INTERVAL): at least that long
Sleep ==
    /\ asm_pc = "sleep"
    /\ \E d \in Delays :
          probed' = Bind(probed, "sys", [probed.sys EXCEPT !.slept = MinCpuUpdateMillis + d])
    /\ asm_pc' = "resample"
    /\ UNCHANGED host
    /\ UNCHANGED nonAsm

\* the second sys.refresh_cpu_all()
SecondSample ==
    /\ asm_pc = "resample"
    /\ probed' = Bind(probed, "sys",
                      Sampler(host.cores, 2, probed.sys.samples + 1, probed.sys.slept))
    /\ asm_pc' = "cpu"
    /\ UNCHANGED host
    /\ UNCHANGED nonAsm

\* one probe: its result is bound and the next probe is up
Probe(at, field, val, then) ==
    /\ asm_pc = at
    /\ probed' = Bind(probed, field, val)
    /\ asm_pc' = then
    /\ UNCHANGED host
    /\ UNCHANGED nonAsm

ProbeCpu == Probe("cpu", "cpu", cpu_info(probed.sys.cpus, host.caches), "ram")
ProbeRam == Probe("ram", "ram_sticks", get_ram_details(host.target_os, host.smbios), "storage")
ProbeStorage ==
    Probe("storage", "storage",
          [i \in 1..Len(host.disks) |-> StorageInfo(host.target_os, host.block, host.disks[i])],
          "network")
ProbeNetwork == Probe("network", "network", network_info, "usb")
ProbeUsb == Probe("usb", "usb", get_usb_devices(host.usb), "pci")
ProbePci == Probe("pci", "pci", get_pci_devices(host.pci.paths, host.pci.functions), "motherboard")
ProbeMotherboard ==
    Probe("motherboard", "motherboard", get_motherboard_info(host.target_os, host.dmi), "battery")
ProbeBattery ==
    Probe("battery", "battery", get_battery_info(host.target_os, host.power_supply), "assemble")

\* the report is built from the bindings and returned
Assemble ==
    /\ asm_pc = "assemble"
    /\ probed' = HardwareReport(probed)
    /\ asm_pc' = "done"
    /\ UNCHANGED host
    /\ UNCHANGED nonAsm

AsmNext ==
    \/ FirstSample
    \/ Sleep
    \/ SecondSample
    \/ ProbeCpu
    \/ ProbeRam
    \/ ProbeStorage
    \/ ProbeNetwork
    \/ ProbeUsb
    \/ ProbePci
    \/ ProbeMotherboard
    \/ ProbeBattery
    \/ Assemble

InitAsm == AsmInit /\ TuiIdle /\ PciIdle /\ RamIdle /\ ProbesIdle

SpecAsm == InitAsm /\ [][AsmNext]_vars

(***************************************************************************)
(* run_tui on the report of get_hardware_report                            *)
(***************************************************************************)
\* the hosts a session is launched on: one core or several, each outcome of
\* the cache probe, one set of the other sources
LaunchHosts ==
    [target_os : {"linux"}, cores : {1, MaxCores + 1}, caches : CacheProbes,
     smbios : {NoTable}, disks : {<<Disk(<<"s", "d", "a", "1">>, "/", 100, 60)>>},
     block : {SysBlock}, usb : {Err},
     pci : {[paths |-> <<NoFile, NoFile>>, functions |-> Err]},
     dmi : {NoDmi}, power_supply : {Err}]

\* the interfaces a report lists
InterfaceNames(r) == {r.network[i].name : i \in DOMAIN r.network}

\* run_tui(report) with the report get_hardware_report returned: App::new
\* takes the first sample of its own System and run_app is entered
Launch ==
    /\ asm_pc = "done"
    /\ pc = "off"
    /\ pc' = "draw"
    /\ res' = "none"
    /\ active_tab' = 0
    /\ start_report' = probed
    /\ report' = probed
    /\ elapsed' = 0
    /\ sys' = SysSample(Len(probed.cpu), 0)
    /\ networks' = NetSample(InterfaceNames(probed), 0)
    /\ uptime_src' = probed.uptime
    /\ gap' = 0
    /\ event' = NoEvent
    /\ prev_tab' = 0
    /\ last_op' = "new"
    /\ UNCHANGED nonTui

LiveNext ==
    \/ AsmNext
    \/ Launch
    \/ Next

InitLive ==
    /\ host \in LaunchHosts /\ asm_pc = "sample" /\ probed = <<>>
    /\ TuiIdle /\ PciIdle /\ RamIdle /\ ProbesIdle

SpecLive == InitLive /\ [][LiveNext]_vars

(***************************************************************************)
(* get_cpu_caches                                                          *)
(***************************************************************************)
\* the most entries the cache enumeration yields
MaxCaches == 2

\* one entry of cpuid.get_cache_parameters()
CacheParameter(level, ways, partitions, line_size, sets) ==
    [level |-> level, associativity |-> ways, physical_line_partitions |-> partitions,
     coherency_line_size |-> line_size, sets |-> sets]

\* (ways, partitions, line size, sets): 32 KiB, 512 bytes, 1536 bytes, 1.5 MiB
Geometries == {<<8, 1, 64, 64>>, <<4, 1, 64, 2>>, <<3, 1, 64, 8>>, <<12, 1, 64, 2048>>}
\* the levels an entry may report: 1, 2, 3 and two that are neither
CacheLevels == 0..4
CacheParameters ==
    {CacheParameter(l, g[1], g[2], g[3], g[4]) : l \in CacheLevels, g \in Geometries}
CacheEnumerations ==
    {None} \cup {Some(s) : s \in UNION {[1..n -> CacheParameters] : n \in 0..MaxCaches}}

\* (ways * partitions * line_size * sets) / 1024
size_kb(cache) ==
    (cache.associativity * cache.physical_line_partitions
        * cache.coherency_line_size * cache.sets) \div 1024

\* format!("{} KB", size_kb)
cache_label(cache) == Decimal(size_kb(cache)) \o <<" ", "K", "B">>

\* the match on the level keeping the label a level already has
store_label_keep_first(labels, level, label) ==
    CASE level = 1 /\ ~labels.l1.some -> [labels EXCEPT !.l1 = Some(label)]
      [] level = 2 /\ ~labels.l2.some -> [labels EXCEPT !.l2 = Some(label)]
      [] level = 3 /\ ~labels.l3.some -> [labels EXCEPT !.l3 = Some(label)]
      [] OTHER -> labels

\* the match on cache.level()
store_label(labels, level, label) ==
    CASE level = 1 -> [labels EXCEPT !.l1 = Some(label)]
      [] level = 2 -> [labels EXCEPT !.l2 = Some(label)]
      [] level = 3 -> [labels EXCEPT !.l3 = Some(label)]
      [] OTHER -> labels

\* get_cpu_caches is called: l1, l2 and l3 are None
CacheInit ==
    /\ cache_params \in CacheEnumerations
    /\ cache_pc = "entries"
    /\ cache_idx = 1
    /\ cache_labels = [l1 |-> None, l2 |-> None, l3 |-> None]

\* get_cache_parameters() is None: the three labels stay None
NoCacheParameters ==
    /\ cache_pc = "entries"
    /\ ~cache_params.some
    /\ cache_pc' = "done"
    /\ UNCHANGED <<cache_params, cache_idx, cache_labels>>
    /\ UNCHANGED nonCache

\* one iteration of the for loop
NextCache ==
    /\ cache_pc = "entries"
    /\ cache_params.some
    /\ cache_idx <= Len(cache_params.val)
    /\ LET cache == cache_params.val[cache_idx]
       IN  cache_labels' = store_label(cache_labels, cache.level, cache_label(cache))
    /\ cache_idx' = cache_idx + 1
    /\ UNCHANGED <<cache_params, cache_pc>>
    /\ UNCHANGED nonCache

\* the enumeration is exhausted: (l1, l2, l3) is returned
ReturnLabels ==
    /\ cache_pc = "entries"
    /\ cache_params.some
    /\ cache_idx > Len(cache_params.val)
    /\ cache_pc' = "done"
    /\ UNCHANGED <<cache_params, cache_idx, cache_labels>>
    /\ UNCHANGED nonCache

CacheNext ==
    \/ NoCacheParameters
    \/ NextCache
    \/ ReturnLabels

InitCache ==
    /\ CacheInit /\ TuiIdle /\ PciIdle /\ RamIdle /\ AsmIdle
    /\ DiskIdle /\ BatIdle /\ MainIdle /\ TermIdle

SpecCache == InitCache /\ [][CacheNext]_vars

(***************************************************************************)
(* One mounted volume: get_disk_metadata and the StorageInfo closure       *)
(***************************************************************************)
\* the longest tail appended to a device-name prefix
MaxTail == 2

\* Byte counts are kept in units of 2^40 bytes: u64::MAX + 1 is 2^24 units
U64Span == 16777216

\* u64 subtraction without overflow checks
wrapping_sub(a, b) == (a - b + U64Span) % U64Span

\* device names: a prefix and a tail of letters, digits and separators
NamePrefixes == {<<"s", "d">>, <<"h", "d">>, <<"n", "v", "m", "e">>, <<"v", "d">>, <<>>}
TailChars == {"a", "1", "p"}
NameTails == UNION {[1..n -> TailChars] : n \in 0..MaxTail}
DeviceNames ==
    {pre \o tail : pre \in NamePrefixes, tail \in NameTails}
    \cup {<<"s", "d", "a", "1">>, <<"n", "v", "m", "e", "0", "n", "1", "p", "2">>, <<"n", "v", "m", "e", "0", "n", "1">>, <<"h", "d", "a", "1">>, <<"m", "m", "c", "b", "l", "k", "0", "p", "1">>, <<"t", "m", "p", "f", "s">>}

\* total_space() and available_space() as the OS reports them
SpacePairs == {<<100, 60>>, <<8, 8>>, <<60, 100>>, <<0, U64Span - 1>>}

Volumes ==
    {[target_os |-> os, block |-> IF os = "linux" THEN SysBlock ELSE NoSysBlock,
      disk |-> Disk(name, "/", sp[1], sp[2])] :
        os \in {"linux", "other"}, name \in DeviceNames, sp \in SpacePairs}

\* the closure is entered for one volume
DiskInit ==
    /\ volume \in Volumes
    /\ disk_pc = "parent"
    /\ parent_dev = <<>>
    /\ metadata = <<>>
    /\ storage = <<>>

\* the whole disk of the volume's device
DeriveParent ==
    /\ disk_pc = "parent"
    /\ volume.target_os = "linux"
    /\ parent_dev' = parent_name(volume.disk.name)
    /\ disk_pc' = "attributes"
    /\ UNCHANGED <<volume, metadata, storage>>
    /\ UNCHANGED nonDisk

\* the three attribute files and the interface
ReadAttributes ==
    /\ disk_pc = "attributes"
    /\ metadata' = disk_metadata(volume.block, parent_dev)
    /\ disk_pc' = "usage"
    /\ UNCHANGED <<volume, parent_dev, storage>>
    /\ UNCHANGED nonDisk

\* not a Linux build: four None
NoMetadata ==
    /\ disk_pc = "parent"
    /\ volume.target_os # "linux"
    /\ metadata' = no_disk_metadata
    /\ disk_pc' = "usage"
    /\ UNCHANGED <<volume, parent_dev, storage>>
    /\ UNCHANGED nonDisk

\* total_space() - available_space() within range: the StorageInfo is built
BuildStorageInfo ==
    /\ disk_pc = "usage"
    /\ volume.disk.available_space <= volume.disk.total_space
    /\ storage' = StorageInfoOf(volume.disk, metadata,
                                volume.disk.total_space - volume.disk.available_space)
    /\ disk_pc' = "done"
    /\ UNCHANGED <<volume, parent_dev, metadata>>
    /\ UNCHANGED nonDisk

\* the subtraction overflows in a build with overflow checks: a panic
SubtractPanics ==
    /\ disk_pc = "usage"
    /\ volume.disk.available_space > volume.disk.total_space
    /\ disk_pc' = "panicked"
    /\ UNCHANGED <<volume, parent_dev, metadata, storage>>
    /\ UNCHANGED nonDisk

\* the subtraction overflows in a build without overflow checks: it wraps
SubtractWraps ==
    /\ disk_pc = "usage"
    /\ volume.disk.available_space > volume.disk.total_space
    /\ storage' = StorageInfoOf(volume.disk, metadata,
                                wrapping_sub(volume.disk.total_space,
                                             volume.disk.available_space))
    /\ disk_pc' = "done"
    /\ UNCHANGED <<volume, parent_dev, metadata>>
    /\ UNCHANGED nonDisk

DiskNext ==
    \/ DeriveParent
    \/ ReadAttributes
    \/ NoMetadata
    \/ BuildStorageInfo
    \/ SubtractPanics
    \/ SubtractWraps

InitDisk ==
    /\ DiskInit /\ TuiIdle /\ PciIdle /\ RamIdle /\ AsmIdle /\ BatIdle /\ MainIdle
    /\ OthersIdle

SpecDisk == InitDisk /\ [][DiskNext]_vars

(***************************************************************************)
(* get_battery_info                                                        *)
(***************************************************************************)
\* the most entries /sys/class/power_supply holds
MaxEntries == 2

\* the contents of a capacity file
CapacityTexts ==
    {<<"8", "0", "\n">>, <<"0", "\n">>, <<"1", "0", "0", "\n">>, <<"1", "0", "1", "\n">>, <<"2", "0", "0", "\n">>, <<"2", "5", "5", "\n">>, <<"2", "5", "6", "\n">>,
     <<"a", "b", "c", "\n">>, <<"\n">>, <<"+", "5", "\n">>, <<"-", "1", "\n">>, <<" ", "4", "2", " ", "\n">>, <<"4", " ", "2", "\n">>}

SupplyEntries ==
    {[name |-> <<"B", "A", "T", "0">>, status |-> Ok(<<"C", "h", "a", "r", "g", "i", "n", "g", "\n">>), capacity |-> Ok(c)] : c \in CapacityTexts}
    \cup {[name |-> <<"B", "A", "T", "0">>, status |-> Ok(<<" ", "F", "u", "l", "l", " ", "\n">>), capacity |-> Unreadable],
          [name |-> <<"B", "A", "T", "1">>, status |-> Unreadable, capacity |-> Ok(<<"8", "0", "\n">>)],
          [name |-> <<"A", "C">>, status |-> Unreadable, capacity |-> Ok(<<"1", "\n">>)]}

SupplyDirs ==
    {[target_os |-> "linux", dir |-> Ok(entries)] :
        entries \in UNION {[1..n -> SupplyEntries] : n \in 0..MaxEntries}}
    \cup {[target_os |-> "linux", dir |-> Err], [target_os |-> "other", dir |-> Err]}

\* get_battery_info is entered
BatInit ==
    /\ supply_dir \in SupplyDirs
    /\ bat_pc = "read_dir"
    /\ entry_idx = 1
    /\ batteries = <<>>

\* not a Linux build: the empty list is returned
BatNotLinux ==
    /\ bat_pc = "read_dir"
    /\ supply_dir.target_os # "linux"
    /\ bat_pc' = "done"
    /\ UNCHANGED <<supply_dir, entry_idx, batteries>>
    /\ UNCHANGED nonBat

\* fs::read_dir succeeds
ReadDir ==
    /\ bat_pc = "read_dir"
    /\ supply_dir.target_os = "linux"
    /\ supply_dir.dir.ok
    /\ bat_pc' = "entries"
    /\ UNCHANGED <<supply_dir, entry_idx, batteries>>
    /\ UNCHANGED nonBat

\* fs::read_dir fails: the empty list is returned
ReadDirFails ==
    /\ bat_pc = "read_dir"
    /\ supply_dir.target_os = "linux"
    /\ ~supply_dir.dir.ok
    /\ bat_pc' = "done"
    /\ UNCHANGED <<supply_dir, entry_idx, batteries>>
    /\ UNCHANGED nonBat

\* one entry of the directory: a battery is pushed when its name starts with BAT
ReadEntry ==
    /\ bat_pc = "entries"
    /\ entry_idx <= Len(supply_dir.dir.val)
    /\ batteries' = IF StartsWith(supply_dir.dir.val[entry_idx].name, <<"B", "A", "T">>)
                    THEN Append(batteries, BatteryInfo(supply_dir.dir.val[entry_idx]))
                    ELSE batteries
    /\ entry_idx' = entry_idx + 1
    /\ UNCHANGED <<supply_dir, bat_pc>>
    /\ UNCHANGED nonBat

\* the directory is exhausted: the batteries are returned
ReturnBatteries ==
    /\ bat_pc = "entries"
    /\ entry_idx > Len(supply_dir.dir.val)
    /\ bat_pc' = "done"
    /\ UNCHANGED <<supply_dir, entry_idx, batteries>>
    /\ UNCHANGED nonBat

BatNext ==
    \/ BatNotLinux
    \/ ReadDir
    \/ ReadDirFails
    \/ ReadEntry
    \/ ReturnBatteries

InitBat ==
    /\ BatInit /\ TuiIdle /\ PciIdle /\ RamIdle /\ AsmIdle /\ DiskIdle /\ MainIdle
    /\ OthersIdle

SpecBat == InitBat /\ [][BatNext]_vars

(***************************************************************************)
(* main                                                                    *)
(***************************************************************************)
\* Args: the output format, the section filters, the configuration file
\* (none, one that loads, one that does not) and the --tui flag
OutputFormats == {"Table", "Json", "Yaml"}
ConfigPaths == {None, Some("loads"), Some("fails")}
ArgSets ==
    [format : OutputFormats, cpu : BOOLEAN, ram : BOOLEAN, storage : BOOLEAN,
     network : BOOLEAN, usb : BOOLEAN, pci : BOOLEAN, health : BOOLEAN, full : BOOLEAN,
     config : ConfigPaths, tui : BOOLEAN]

any_filter(a) ==
    a.cpu \/ a.ram \/ a.storage \/ a.network \/ a.usb \/ a.pci \/ a.health \/ a.full

\* the print calls of the filtered table output, in the order main makes them
section_prints(a) ==
    (IF a.cpu \/ a.full THEN <<"print_cpu">> ELSE <<>>)
    \o (IF a.ram \/ a.full THEN <<"print_ram">> ELSE <<>>)
    \o (IF a.storage \/ a.full THEN <<"print_storage">> ELSE <<>>)
    \o (IF a.network \/ a.full THEN <<"print_network">> ELSE <<>>)
    \o (IF a.usb \/ a.full THEN <<"print_usb">> ELSE <<>>)
    \o (IF a.pci \/ a.full THEN <<"print_pci">> ELSE <<>>)
    \o (IF a.health \/ a.full THEN <<"print_health">> ELSE <<>>)

\* Args::parse() returned
MainInit ==
    /\ args \in ArgSets
    /\ main_pc = "config"
    /\ calls = <<>>
    /\ exit = "none"

\* no --config: Config::default()
DefaultConfig ==
    /\ main_pc = "config"
    /\ ~args.config.some
    /\ calls' = Append(calls, "Config::default")
    /\ main_pc' = "report"
    /\ UNCHANGED <<args, exit>>
    /\ UNCHANGED nonMain

\* Config::load_from_file(path)? succeeds
LoadConfig ==
    /\ main_pc = "config"
    /\ args.config = Some("loads")
    /\ calls' = Append(calls, "Config::load_from_file")
    /\ main_pc' = "report"
    /\ UNCHANGED <<args, exit>>
    /\ UNCHANGED nonMain

\* Config::load_from_file(path)? fails: main returns the error
LoadConfigFails ==
    /\ main_pc = "config"
    /\ args.config = Some("fails")
    /\ calls' = Append(calls, "Config::load_from_file")
    /\ main_pc' = "done"
    /\ exit' = "Err"
    /\ UNCHANGED args
    /\ UNCHANGED nonMain

\* let report = get_hardware_report()
GetReport ==
    /\ main_pc = "report"
    /\ calls' = Append(calls, "get_hardware_report")
    /\ main_pc' = "output"
    /\ UNCHANGED <<args, exit>>
    /\ UNCHANGED nonMain

\* the table format with a filter: the selected sections are printed
PrintSections ==
    /\ main_pc = "output"
    /\ args.format = "Table"
    /\ any_filter(args)
    /\ calls' = calls \o section_prints(args)
    /\ main_pc' = "done"
    /\ exit' = "Ok"
    /\ UNCHANGED args
    /\ UNCHANGED nonMain

\* the table format without a filter: print_report
PrintReport ==
    /\ main_pc = "output"
    /\ args.format = "Table"
    /\ ~any_filter(args)
    /\ calls' = Append(calls, "print_report")
    /\ main_pc' = "done"
    /\ exit' = "Ok"
    /\ UNCHANGED args
    /\ UNCHANGED nonMain

\* another format: export_report(&report, args.format)? succeeds or fails
ExportReport ==
    /\ main_pc = "output"
    /\ args.format # "Table"
    /\ calls' = Append(calls, "export_report")
    /\ main_pc' = "done"
    /\ exit' \in {"Ok", "Err"}
    /\ UNCHANGED args
    /\ UNCHANGED nonMain

MainNext ==
    \/ DefaultConfig
    \/ LoadConfig
    \/ LoadConfigFails
    \/ GetReport
    \/ PrintSections
    \/ PrintReport
    \/ ExportReport

InitMain ==
    /\ MainInit /\ TuiIdle /\ PciIdle /\ RamIdle /\ AsmIdle /\ DiskIdle /\ BatIdle
    /\ OthersIdle

SpecMain == InitMain /\ [][MainNext]_vars

(***************************************************************************)
(* Claims about the PCI ID table                                           *)
(***************************************************************************)
\* The PCI ID format, record by record: a line with no leading tab opens a
\* vendor (or class) section, a line with one leading tab belongs to the
\* section opened by the nearest such line above it.
IsBlankOrComment(line) == Trim(line) = <<>> \/ StartsWith(line, <<"#">>)
IsSectionLine(line) == ~IsBlankOrComment(line) /\ ~StartsWith(line, <<"\t">>)
IsClassLine(line) == IsSectionLine(line) /\ StartsWith(line, <<"C">>)
IsVendorLine(line) == IsSectionLine(line) /\ ~IsClassLine(line)
IsVendorRecord(line) ==
    IsVendorLine(line) /\ from_str_radix(SplitHead(line)).ok /\ SplitRest(line).some
IsMemberLine(line) ==
    ~IsBlankOrComment(line) /\ StartsWith(line, <<"\t">>) /\ ~StartsWith(line, <<"\t", "\t">>)
IsDeviceRecord(line) ==
    IsMemberLine(line) /\ from_str_radix(SplitHead(Trim(line))).ok /\ SplitRest(Trim(line)).some
RecordId(line) == from_str_radix(SplitHead(Trim(line))).val
RecordName(line) == Trim(SplitRest(Trim(line)).val)

\* the line that opens the section line i of f belongs to, 0 when there is none
SectionOf(f, i) ==
    IF \E j \in 1..(i - 1) : IsSectionLine(f[j])
    THEN CHOOSE j \in 1..(i - 1) :
            IsSectionLine(f[j]) /\ \A k \in (j + 1)..(i - 1) : ~IsSectionLine(f[k])
    ELSE 0

\* line i of f is the record of device d under vendor v
ListsDevice(f, i, v, d) ==
    /\ IsDeviceRecord(f[i]) /\ RecordId(f[i]) = d
    /\ SectionOf(f, i) # 0
    /\ IsVendorRecord(f[SectionOf(f, i)]) /\ RecordId(f[SectionOf(f, i)]) = v

\* line j of f is a record of vendor v
ListsVendor(f, j, v) == IsVendorRecord(f[j]) /\ RecordId(f[j]) = v

\* the lines of the file load_pci_db reads: the first candidate path that opens
OpenedLines ==
    IF \E i \in 1..Len(paths) : paths[i].open
    THEN paths[CHOOSE i \in 1..Len(paths) :
                  paths[i].open /\ \A j \in 1..(i - 1) : ~paths[j].open].lines
    ELSE <<>>

\* C6: a function (v, d) gets the vendor and device name of the record that
\* lists d under v; the vendor name of v and no device name when v is listed
\* but d is not listed under it; no names when v is not listed.
C6_LookupContract ==
    \A n \in DOMAIN devices :
        LET f == OpenedLines
            v == devices[n].vendor_id
            d == devices[n].device_id
        IN  IF \E i \in DOMAIN f : ListsDevice(f, i, v, d)
            THEN \E i \in DOMAIN f :
                    /\ ListsDevice(f, i, v, d)
                    /\ devices[n].vendor_name = Some(RecordName(f[SectionOf(f, i)]))
                    /\ devices[n].device_name = Some(RecordName(f[i]))
            ELSE IF \E j \in DOMAIN f : ListsVendor(f, j, v)
            THEN /\ \E j \in DOMAIN f :
                       ListsVendor(f, j, v) /\ devices[n].vendor_name = Some(RecordName(f[j]))
                 /\ devices[n].device_name = None
            ELSE devices[n].vendor_name = None /\ devices[n].device_name = None

\* a step that reads line line_no of the opened file
ParseStep == pci_pc = "lines" /\ line_no' = line_no + 1
\* the entries a step adds or changes
Entered == {k \in DOMAIN db' : k \notin DOMAIN db \/ db'[k] # db[k]}

\* C7: a vendor line that does not parse (bad hex id, or no name) enters
\* nothing, and the device lines below it are not entered under the id or
\* name of another vendor; a device line with a bad hex id enters nothing.
C7_ParseFailureIsLocal ==
    [][ParseStep =>
        LET f == paths[path_idx].lines
            line == f[line_no]
            top == SectionOf(f, line_no)
        IN  /\ (IsVendorLine(line) /\ ~IsVendorRecord(line)) => Entered = {}
            /\ (IsMemberLine(line) /\ top # 0 /\ IsVendorLine(f[top]) /\ ~IsVendorRecord(f[top])) =>
                  \A k \in Entered :
                     /\ from_str_radix(SplitHead(f[top])).ok
                     /\ k[1] = from_str_radix(SplitHead(f[top])).val
                     /\ db'[k].vendor = None
            /\ (IsMemberLine(line) /\ ~IsDeviceRecord(line)) => Entered = {}]_vars

\* the parts of C7 the code does satisfy: a vendor line that does not parse
\* and a device line that does not parse enter nothing themselves
C7_FailedLineEntersNothing ==
    [][ParseStep =>
        LET line == paths[path_idx].lines[line_no]
        IN  /\ (IsVendorLine(line) /\ ~IsVendorRecord(line)) => Entered = {}
            /\ (IsMemberLine(line) /\ ~IsDeviceRecord(line)) => Entered = {}]_vars

\* no candidate path can be opened
NoPathOpens == \A i \in 1..Len(paths) : ~paths[i].open

\* C15: when neither candidate path opens, the table stays empty and every
\* enumerated function adds exactly one entry, with the ids of a function on
\* the bus and neither a vendor name nor a device name.
C15_NoFileNoNames ==
    [][(pci_pc # "off" /\ NoPathOpens) =>
          /\ db' = <<>>
          /\ devices' # devices =>
                /\ Len(devices') = Len(devices) + 1
                /\ SubSeq(devices', 1, Len(devices)) = devices
                /\ LET e == devices'[Len(devices')]
                   IN  /\ <<e.vendor_id, e.device_id>> \in PciFunctions
                       /\ e.vendor_name = None
                       /\ e.device_name = None]_vars

\* C15 witness: no path opened and a function was enumerated, without names
C15_Witness ==
    /\ pci_pc = "enumerate" /\ NoPathOpens
    /\ db = <<>>
    /\ Len(devices) >= 1
    /\ devices[1].vendor_id = 26
    /\ devices[1].vendor_name = None /\ devices[1].device_name = None

\* the candidate path load_pci_db reads: the first that opens, 0 when none does
FirstOpen ==
    IF NoPathOpens THEN 0
    ELSE CHOOSE i \in 1..Len(paths) : paths[i].open /\ \A j \in 1..(i - 1) : ~paths[j].open

\* C19: load_pci_db reads the first candidate path that opens and no other:
\* every entry of the table is the record of a line of that file, so no
\* entry of a later candidate appears, also when that file yields no record.
C19_OnlyFirstOpenedFile ==
    /\ pci_pc = "lines" => path_idx = FirstOpen
    /\ \A k \in DOMAIN db :
          \E i \in 1..Len(OpenedLines) :
              \/ /\ IsVendorRecord(OpenedLines[i])
                 /\ k = <<RecordId(OpenedLines[i]), 65535>>
                 /\ db[k].vendor = Some(RecordName(OpenedLines[i]))
              \/ /\ IsDeviceRecord(OpenedLines[i])
                 /\ k[2] = RecordId(OpenedLines[i])
                 /\ db[k].device = Some(RecordName(OpenedLines[i]))

\* C19 witness: the first path opened on an empty file, the second path
\* holds records, and the table returned is empty
C19_Witness ==
    /\ pci_pc = "enumerate"
    /\ paths[1].open /\ paths[1].lines = <<>>
    /\ paths[2].open /\ paths[2].lines # <<>>
    /\ db = <<>>

(***************************************************************************)
(* Claims about the memory modules                                         *)
(***************************************************************************)
\* a text that names no manufacturer: empty after trimming, one of the
\* placeholder words in any letter case, a text with "empty" in it, or "0"
IsPlaceholder(text) ==
    LET low == to_lowercase(Trim(text))
    IN  \/ Len(Trim(text)) = 0
        \/ low \in {<<"u", "n", "k", "n", "o", "w", "n">>, <<"n", "o", "n", "e">>, <<"n", "o", "t", " ", "s", "p", "e", "c", "i", "f", "i", "e", "d">>}
        \/ \E i \in 1..Len(low) : i + 4 <= Len(low) /\ SubSeq(low, i, i + 4) = <<"e", "m", "p", "t", "y">>
        \/ Trim(text) = <<"0">>

IsUsableMemoryDevice(s) == s.struct_type = 17 /\ ~IsPlaceholder(s.manufacturer)

\* the structures get_ram_details has gone through
SeenStructs == SubSeq(smbios.val, 1, struct_idx - 1)
TableLoaded == ram_pc \in {"iterate", "done"} /\ target_os = "linux" /\ smbios.ok

\* C9: of the memory-device records gone through, those with a placeholder
\* manufacturer contribute no stick and every other one contributes exactly
\* one, in input order, whatever its part number and serial clean to.
C9_PlaceholderManufacturerExcluded ==
    TableLoaded =>
        LET kept == SelectSeq(SeenStructs, IsUsableMemoryDevice)
        IN  /\ Len(sticks) = Len(kept)
            /\ \A i \in 1..Len(kept) :
                  /\ sticks[i].manufacturer =
                        Some(map_ram_manufacturer(Trim(kept[i].manufacturer)))
                  /\ sticks[i].part_number =
                        (IF IsPlaceholder(kept[i].part_number)
                         THEN None ELSE Some(Trim(kept[i].part_number)))
                  /\ sticks[i].serial_number =
                        (IF IsPlaceholder(kept[i].serial_number)
                         THEN None ELSE Some(Trim(kept[i].serial_number)))

\* C9 witness: a table of a record with manufacturer "Unknown" and a record
\* whose part number and serial are placeholders gave exactly one stick, the
\* second record's, with neither part number nor serial
C9_Witness ==
    /\ ram_pc = "done" /\ target_os = "linux" /\ smbios.ok
    /\ Len(smbios.val) = 2
    /\ smbios.val[1].struct_type = 17 /\ smbios.val[1].manufacturer = <<"U", "n", "k", "n", "o", "w", "n">>
    /\ smbios.val[2].struct_type = 17 /\ smbios.val[2].serial_number = <<"0">>
    /\ Len(sticks) = 1
    /\ sticks[1].manufacturer.some
    /\ sticks[1].part_number = None /\ sticks[1].serial_number = None

\* the number the digit characters of a text spell, read left to right
RECURSIVE DigitsValue(_, _)
DigitsValue(text, acc) ==
    IF text = <<>> THEN acc
    ELSE IF is_digit(Head(text)) THEN DigitsValue(Tail(text), 10 * acc + DigitVal(Head(text)))
    ELSE DigitsValue(Tail(text), acc)

HasDigit(text) == \E i \in 1..Len(text) : is_digit(text[i])

\* C10: a stick's speed is the number spelled by the digit characters of the
\* raw representation of its record's speed, and None when that number is zero,
\* when the representation has no digit or when the record has no speed;
\* it is never Some(0).
C10_SpeedFromDigits ==
    TableLoaded =>
        LET kept == SelectSeq(SeenStructs, IsUsableMemoryDevice)
        IN  /\ Len(sticks) = Len(kept)
            /\ \A i \in 1..Len(kept) :
                  LET raw == kept[i].speed
                  IN  /\ sticks[i].speed # Some(0)
                      /\ IF raw.some /\ HasDigit(DebugSpeed(raw.val))
                            /\ DigitsValue(DebugSpeed(raw.val), 0) # 0
                         THEN sticks[i].speed = Some(DigitsValue(DebugSpeed(raw.val), 0))
                         ELSE sticks[i].speed = None
                      /\ (raw.some /\ raw.val.kind = "MTs" /\ raw.val.n > 0) =>
                            sticks[i].speed = Some(raw.val.n)

\* C10 witness: a record with speed MTs(0) gave a stick without speed and a
\* record with speed MTs(65535) a stick with speed 65535
C10_Witness ==
    /\ ram_pc = "done" /\ target_os = "linux" /\ smbios.ok
    /\ Len(smbios.val) = 2 /\ Len(sticks) = 2
    /\ smbios.val[1].speed = Some(MTs(0)) /\ sticks[1].speed = None
    /\ smbios.val[2].speed = Some(MTs(65535)) /\ sticks[2].speed = Some(65535)

(***************************************************************************)
(* Claims about the report assembly                                        *)
(***************************************************************************)
\* no firmware table, no DMI attribute file, no mounted disk, no USB device
NoSources ==
    /\ ~host.smbios.ok
    /\ \A f \in DmiFiles : ~host.dmi[f].ok
    /\ host.disks = <<>>
    /\ host.usb.ok => host.usb.val = <<>>

Returned == asm_pc = "done"

EmptyCollections ==
    /\ probed.storage = <<>>
    /\ probed.usb = <<>>
    /\ probed.ram.sticks = <<>>

UnknownBoard ==
    [vendor |-> <<"U", "n", "k", "n", "o", "w", "n">>, product |-> <<"U", "n", "k", "n", "o", "w", "n">>, bios_vendor |-> <<"U", "n", "k", "n", "o", "w", "n">>,
     bios_version |-> <<"U", "n", "k", "n", "o", "w", "n">>, bios_date |-> <<"U", "n", "k", "n", "o", "w", "n">>]

\* C8 as stated: the report returned on a host with no sources has empty
\* storage, usb and ram.sticks and its motherboard is None.
C8_NoSourcesNoMotherboard ==
    NoSources =>
        /\ Returned => EmptyCollections /\ probed.motherboard = None

\* C8 amended: the report returned on a host with no sources has empty
\* storage, usb and ram.sticks; its motherboard is None on a build for
\* another platform and, on Linux, a record of five "Unknown" fields.
C8_NoSourcesUnknownMotherboard ==
    NoSources =>
        /\ Returned =>
              /\ EmptyCollections
              /\ host.target_os = "linux" => probed.motherboard = Some(UnknownBoard)
              /\ host.target_os # "linux" => probed.motherboard = None

\* C8 witness: a Linux host without sources got its report, with a motherboard
C8_Witness ==
    /\ Returned /\ NoSources /\ host.target_os = "linux"
    /\ EmptyCollections
    /\ probed.motherboard.some
    /\ probed.cpu # <<>>

(***************************************************************************)
(* Claims about the mounted volumes                                        *)
(***************************************************************************)
NumericChars == {"0", "1", "2", "3", "4", "5", "6", "7", "8", "9"}
HasLegacyPrefix(name) == StartsWith(name, <<"s", "d">>) \/ StartsWith(name, <<"h", "d">>)
HasNvmePrefix(name) == StartsWith(name, <<"n", "v", "m", "e">>)
HasSeparator(name) == \E i \in 1..Len(name) : name[i] = "p"

\* p is name without its trailing numeric characters
WithoutTrailingNumerics(p, name) ==
    /\ Len(p) <= Len(name)
    /\ p = SubSeq(name, 1, Len(p))
    /\ \A i \in (Len(p) + 1)..Len(name) : name[i] \in NumericChars
    /\ p # <<>> => p[Len(p)] \notin NumericChars

\* p is name cut before its last separator
CutAtLastSeparator(p, name) ==
    \E i \in 1..Len(name) :
        /\ name[i] = "p"
        /\ \A j \in (i + 1)..Len(name) : name[j] # "p"
        /\ p = SubSeq(name, 1, i - 1)

ParentDerived == volume.target_os = "linux" /\ disk_pc \in {"attributes", "usage", "done", "panicked"}

\* C11: the parent of "sda1" is "sda", of "nvme0n1p2" is "nvme0n1", of
\* "nvme0n1" is "nvme0n1"; a name starting with "sd" or "hd" loses its trailing
\* numeric characters, a name starting with "nvme" that contains 'p' is cut at
\* its last 'p', and every other name is its own parent.
C11_ParentDerivation ==
    ParentDerived =>
        LET name == volume.disk.name
        IN  /\ name = <<"s", "d", "a", "1">> => parent_dev = <<"s", "d", "a">>
            /\ name = <<"n", "v", "m", "e", "0", "n", "1", "p", "2">> => parent_dev = <<"n", "v", "m", "e", "0", "n", "1">>
            /\ name = <<"n", "v", "m", "e", "0", "n", "1">> => parent_dev = <<"n", "v", "m", "e", "0", "n", "1">>
            /\ HasLegacyPrefix(name) => WithoutTrailingNumerics(parent_dev, name)
            /\ (~HasLegacyPrefix(name) /\ HasNvmePrefix(name) /\ HasSeparator(name)) =>
                  CutAtLastSeparator(parent_dev, name)
            /\ (~HasLegacyPrefix(name) /\ ~(HasNvmePrefix(name) /\ HasSeparator(name))) =>
                  parent_dev = name

\* C11 witness: an NVMe name with two separators was cut at the second one
C11_Witness ==
    /\ ParentDerived
    /\ volume.disk.name = <<"n", "v", "m", "e", "p", "p">>
    /\ parent_dev = <<"n", "v", "m", "e", "p">>

\* C12: the interface of a volume is "NVMe" when its name has the NVMe
\* prefix, "SATA/SAS" when it has the prefix "sd" or "hd", and None otherwise.
C12_InterfaceFromPrefix ==
    (volume.target_os = "linux" /\ disk_pc \in {"usage", "done", "panicked"}) =>
        LET name == volume.disk.name
        IN  metadata.interface =
                (IF HasNvmePrefix(name) THEN Some(<<"N", "V", "M", "e">>)
                 ELSE IF HasLegacyPrefix(name) THEN Some(<<"S", "A", "T", "A", "/", "S", "A", "S">>)
                 ELSE None)

\* C14: the closure never fails, and the StorageInfo it builds has used equal
\* to total minus available and free equal to available, so used + free = total.
C14_UsedIsTotalMinusAvailable ==
    /\ disk_pc # "panicked"
    /\ disk_pc = "done" =>
          /\ storage.used = volume.disk.total_space - volume.disk.available_space
          /\ storage.free = volume.disk.available_space
          /\ storage.used + storage.free = storage.total

(***************************************************************************)
(* Claims about the batteries                                              *)
(***************************************************************************)
\* the entries gone through whose name has the battery prefix
SeenBatteries ==
    SelectSeq(SubSeq(supply_dir.dir.val, 1, entry_idx - 1),
              LAMBDA e : Len(e.name) >= 3 /\ SubSeq(e.name, 1, 3) = <<"B", "A", "T">>)

\* the text is a decimal percentage: digits only, value 0..100
IsPercentage(text) ==
    /\ text # <<>>
    /\ \A i \in 1..Len(text) : text[i] \in NumericChars
    /\ DigitsValue(text, 0) <= 100

\* C13: every battery has a capacity in 0..100: the percentage its capacity
\* file holds, 0 when the file is unreadable or does not parse; its status is
\* the trimmed content of the status file, "Unknown" when unreadable.
C13_CapacityIsPercentage ==
    (bat_pc \in {"entries", "done"} /\ supply_dir.target_os = "linux" /\ supply_dir.dir.ok) =>
        /\ Len(batteries) = Len(SeenBatteries)
        /\ \A i \in 1..Len(batteries) :
              LET e == SeenBatteries[i]
              IN  /\ batteries[i].capacity \in 0..100
                  /\ (e.capacity.ok /\ IsPercentage(Trim(e.capacity.val))) =>
                        batteries[i].capacity = DigitsValue(Trim(e.capacity.val), 0)
                  /\ ~e.capacity.ok => batteries[i].capacity = 0
                  /\ batteries[i].status =
                        (IF e.status.ok THEN Trim(e.status.val) ELSE <<"U", "n", "k", "n", "o", "w", "n">>)

(***************************************************************************)
(* Claims about main                                                       *)
(***************************************************************************)
\* C16: when the program is started with --tui and main returns Ok, main
\* has called run_tui after get_hardware_report.
C16_TuiFlagLaunchesSession ==
    (main_pc = "done" /\ exit = "Ok" /\ args.tui) =>
        \E i, j \in 1..Len(calls) :
            i < j /\ calls[i] = "get_hardware_report" /\ calls[j] = "run_tui"

(***************************************************************************)
(* Claims about the Live Session                                           *)
(***************************************************************************)
\* a step in which event::read returned a key event and the match ran
KeyStep == pc = "read" /\ event'.type = "Key"
\* a step in which update_metrics ran
RefreshStep == pc = "check" /\ last_op' = "refresh"

\* C1: a next key (Right or Tab) moves the active tab from i to i+1 and from
\* tab 3 to tab 0, a previous key (Left) moves it from i to i-1 and from tab 0
\* to tab 3, and the session is still Running after either.
C1_TabNavigationWraps ==
    [][KeyStep =>
        /\ event'.code \in {"Right", "Tab"} =>
              /\ active_tab' = (IF active_tab = 3 THEN 0 ELSE active_tab + 1)
              /\ res' = "none" /\ pc' # "done"
        /\ event'.code = "Left" =>
              /\ active_tab' = (IF active_tab = 0 THEN 3 ELSE active_tab - 1)
              /\ res' = "none" /\ pc' # "done"]_vars

\* C1 witness: Right was pressed on tab 3 and the session is on tab 0, Running
C1_Witness ==
    /\ last_op = "key" /\ event.type = "Key" /\ event.code = "Right"
    /\ prev_tab = 3 /\ active_tab = 0 /\ res = "none"

\* C2: a quit key (q or Esc) read while Running ends the loop with Ok; only a
\* quit key does; and once Terminated nothing changes any more (no draw, no
\* tab change, no refresh).
C2_QuitTerminates ==
    /\ [][(KeyStep /\ event'.code \in {"q", "Esc"}) => (res' = "Ok" /\ pc' = "done")]_vars
    /\ [][(res # "Ok" /\ res' = "Ok") =>
            (res = "none" /\ KeyStep /\ event'.code \in {"q", "Esc"})]_vars
    /\ [][res # "Ok"]_vars

\* C2 witness: Esc was read and the session is Terminated
C2_Witness ==
    /\ res = "Ok" /\ pc = "done" /\ last_op = "quit"
    /\ event.type = "Key" /\ event.code = "Esc"

\* C3: a refresh gives every interface of the working copy whose name is in
\* the refreshed sample that sample's totals, leaves the totals of every other
\* interface as they were, and keeps the list's names, order, length and MAC
\* addresses; no other step changes the list at all.
C3_NetworkUpdateByName ==
    [][/\ RefreshStep =>
            /\ Len(report'.network) = Len(report.network)
            /\ \A i \in DOMAIN report.network :
                  /\ report'.network[i].name = report.network[i].name
                  /\ report'.network[i].mac_address = report.network[i].mac_address
                  /\ IF report.network[i].name \in DOMAIN networks'
                     THEN /\ report'.network[i].received =
                                networks'[report.network[i].name].received
                          /\ report'.network[i].transmitted =
                                networks'[report.network[i].name].transmitted
                     ELSE /\ report'.network[i].received = report.network[i].received
                          /\ report'.network[i].transmitted = report.network[i].transmitted
       /\ ~RefreshStep => report'.network = report.network]_vars

\* C3 witness: after a refresh one interface shows the sample's totals and
\* another, missing from the sample, still shows totals of an earlier refresh
C3_Witness ==
    /\ last_op = "refresh"
    /\ \E i, j \in DOMAIN report.network :
          /\ report.network[i].name \in DOMAIN networks
          /\ report.network[i].received = networks[report.network[i].name].received
          /\ report.network[j].name \notin DOMAIN networks
          /\ report.network[j].received # start_report.network[j].received

\* the fields of a report that update_metrics is said to leave alone
Frozen(r) ==
    [os_name |-> r.os_name, os_version |-> r.os_version,
     kernel_version |-> r.kernel_version, hostname |-> r.hostname,
     cpu |-> [i \in DOMAIN r.cpu |-> [r.cpu[i] EXCEPT !.usage = 0, !.frequency = 0]],
     ram |-> [r.ram EXCEPT !.used = 0, !.free = 0, !.swap_used = 0],
     storage |-> r.storage,
     network |-> [i \in DOMAIN r.network |->
                     [r.network[i] EXCEPT !.received = 0, !.transmitted = 0]],
     usb |-> r.usb, pci |-> r.pci, motherboard |-> r.motherboard, battery |-> r.battery]

\* C4: whatever refreshes and key events happened, the working copy differs
\* from the report of session start at most in per-core usage and frequency,
\* ram.used, ram.free, ram.swap_used, uptime and per-interface
\* received/transmitted.
C4_OnlyCheapFieldsChange == Frozen(report) = Frozen(start_report)

\* C4 witness: a refresh changed usage, memory, uptime and an interface's totals
C4_Witness ==
    /\ last_op = "refresh"
    /\ report.uptime # start_report.uptime
    /\ report.ram.used # start_report.ram.used
    /\ \E i \in DOMAIN report.cpu : report.cpu[i].usage # start_report.cpu[i].usage
    /\ \E i \in DOMAIN report.network :
          report.network[i].received # start_report.network[i].received

\* C5: the step after the input handling refreshes exactly when at least one
\* second has elapsed since the previous refresh (or session start); a
\* refresh resets the reference time, and at least a second lies between two
\* refreshes.
C5_RefreshEverySecond ==
    /\ [][pc = "check" => ((last_op' = "refresh") <=> (elapsed >= 1000))]_vars
    /\ [][RefreshStep => (gap >= 1000 /\ elapsed' = 0)]_vars
    /\ [][(report' # report \/ sys' # sys \/ networks' # networks) => RefreshStep]_vars

\* C5 witness: a refresh has just run and the reference time is reset
C5_Witness == last_op = "refresh" /\ pc = "draw" /\ elapsed = 0 /\ report # start_report

\* C20: an iteration begins with the redraw and with nothing else; a wait
\* that times out changes neither the active tab nor the working copy, leaves
\* the session Running and goes to the refresh check, and the refresh check
\* goes to the redraw of the next iteration.
C20_TimeoutRedraws ==
    /\ [][pc = "draw" =>
            /\ last_op' \in {"draw", "draw_err"}
            /\ active_tab' = active_tab /\ report' = report]_vars
    /\ [][pc' = "draw" => pc = "check"]_vars
    /\ [][last_op' = "timeout" =>
            /\ pc = "poll" /\ pc' = "check"
            /\ active_tab' = active_tab /\ report' = report
            /\ res = "none" /\ res' = "none"]_vars
    /\ [][pc = "check" => (pc' = "draw" /\ active_tab' = active_tab /\ res' = "none")]_vars

\* C20 witness: the wait timed out on tab 2 and the session, still Running
\* on tab 2, is at the refresh check
C20_Witness ==
    /\ last_op = "timeout" /\ pc = "check"
    /\ active_tab = 2 /\ res = "none" /\ event = NoEvent

(***************************************************************************)
(* Claims about the report in a launched session                           *)
(***************************************************************************)
CacheLabels(c) == [l1 |-> c.l1_cache, l2 |-> c.l2_cache, l3 |-> c.l3_cache]
NoCaches == [l1 |-> None, l2 |-> None, l3 |-> None]

\* every core entry of cpu carries the labels the cache probe returned, and
\* the fields that do not come from the cache probe are filled in
CoresCarry(cpu, caches) ==
    \A i \in DOMAIN cpu :
        /\ CacheLabels(cpu[i]) = caches
        /\ cpu[i].model # "" /\ cpu[i].vendor_id # "" /\ cpu[i].brand # ""
        /\ cpu[i].frequency > 0

\* the core list of every report that exists: the one being assembled or
\* returned, and the working copy of the session
CpuBound == asm_pc \in {"ram", "storage", "network", "usb", "pci", "motherboard", "battery", "assemble", "done"}
InSession == pc # "off"

\* C17: in every report, the one get_hardware_report builds and the working
\* copy after any number of Live Session refreshes, all core entries carry
\* the same three cache labels, namely the ones the cache probe returned (all
\* None when the probe yields nothing) with the other fields of each core
\* entry filled in, and a refresh changes no cache label.
C17_CachesIdenticalAcrossCores ==
    /\ CpuBound => Len(probed.cpu) = host.cores /\ CoresCarry(probed.cpu, host.caches)
    /\ InSession => Len(report.cpu) = host.cores /\ CoresCarry(report.cpu, host.caches)

\* a refresh has patched the first of several cores and not the last, on a
\* host whose cache probe yields nothing
C17_Witness ==
    /\ InSession /\ last_op = "refresh"
    /\ Len(report.cpu) >= 2
    /\ host.caches = NoCaches
    /\ report.cpu[1].usage # start_report.cpu[1].usage
    /\ report.cpu[Len(report.cpu)].usage = start_report.cpu[Len(report.cpu)].usage
    /\ CacheLabels(report.cpu[1]) = NoCaches

\* the usage a sampler reports for core i at its first sample
FirstReading(i) == CpuReading(i, 0).usage
\* get_hardware_report still holds its System next to the core list it built
SamplerHeld == CpuBound /\ asm_pc # "done"
NoFirstReading(cpu) == \A i \in DOMAIN cpu : cpu[i].usage # FirstReading(i)

\* C18: every usage value stored in a report comes from a second or later
\* sample of its sampler, taken at least the minimum CPU update interval
\* after the previous sample of that sampler: in get_hardware_report the
\* System was sampled twice with at least that interval in between and the
\* core list holds the readings of the second sample; a Live Session refresh
\* happens at least that interval after the previous sample of App.sys (the
\* one of App::new or of the previous refresh) and stores the readings of
\* the new sample; no report ever holds a first-sample reading.
C18_UsageFromSpacedSecondSample ==
    /\ [](SamplerHeld =>
            /\ probed.sys.samples >= 2
            /\ probed.sys.interval >= MinCpuUpdateMillis
            /\ \A i \in DOMAIN probed.cpu : probed.cpu[i].usage = probed.sys.cpus[i].usage)
    /\ [](CpuBound => NoFirstReading(probed.cpu))
    /\ [](InSession => NoFirstReading(report.cpu))
    /\ [][RefreshStep =>
            /\ "cpus" \in DOMAIN sys
            /\ gap >= MinCpuUpdateMillis
            /\ \A i \in DOMAIN report'.cpu :
                  report'.cpu[i].usage =
                      IF i \in DOMAIN sys'.cpus THEN sys'.cpus[i].usage
                                                ELSE report.cpu[i].usage]_vars

\* a refresh has stored the readings of its sample over the ones the report
\* was assembled with
C18_Witness ==
    /\ InSession /\ last_op = "refresh"
    /\ Len(sys.cpus) >= 1 /\ Len(report.cpu) >= 1
    /\ report.cpu[1].usage = sys.cpus[1].usage
    /\ report.cpu[1].usage # start_report.cpu[1].usage
    /\ start_report.cpu[1].usage = CpuReading(1, 2).usage

\* C21: a refresh gives core i of the working copy the usage and frequency of
\* sample entry i for every index both have; a core without a sample entry is
\* left as it was, sample entries beyond the last core add nothing, the
\* number of cores stays the same and no other field of a core changes.
C21_CoresPatchedByIndex ==
    [][RefreshStep =>
        /\ Len(report'.cpu) = Len(report.cpu)
        /\ \A i \in DOMAIN report.cpu :
              IF i <= Len(sys'.cpus)
              THEN report'.cpu[i] = [report.cpu[i] EXCEPT !.usage = sys'.cpus[i].usage,
                                                          !.frequency = sys'.cpus[i].frequency]
              ELSE report'.cpu[i] = report.cpu[i]]_vars

\* a refresh whose sample had fewer entries than the working copy has cores:
\* the first core holds the sample's values, the last one its earlier ones
C21_Witness ==
    /\ InSession /\ last_op = "refresh"
    /\ Len(sys.cpus) >= 1 /\ Len(sys.cpus) < Len(report.cpu)
    /\ report.cpu[1].usage = sys.cpus[1].usage
    /\ report.cpu[1].frequency = sys.cpus[1].frequency
    /\ report.cpu[Len(report.cpu)] = start_report.cpu[Len(report.cpu)]

\* a refresh whose sample had more entries than the working copy has cores
SampleBeyondCores ==
    /\ InSession /\ last_op = "refresh"
    /\ Len(sys.cpus) > Len(report.cpu) /\ Len(report.cpu) >= 1


\* the digit keys and the tab each selects
DigitTab(code) == CASE code = "1" -> 0 [] code = "2" -> 1 [] code = "3" -> 2 [] code = "4" -> 3
DigitKeys == {"1", "2", "3", "4"}

\* C22: a digit key k of 1..4 sets the active tab to k-1 whatever tab was
\* active, and the session is still Running afterwards.
C22_DigitSelectsTab ==
    [][(KeyStep /\ event'.code \in DigitKeys) =>
            /\ active_tab' = DigitTab(event'.code)
            /\ res' = "none" /\ pc' = "check"]_vars

\* the key 2 was pressed on the last tab: the second tab is active, Running
C22_Witness ==
    /\ last_op = "key" /\ event.type = "Key" /\ event.code = "2"
    /\ prev_tab = 3 /\ active_tab = 1 /\ res = "none"

\* the arm of ui's match on app.active_tab that renders the content
ui_content(tab) ==
    CASE tab = 0 -> "render_overview"
      [] tab = 1 -> "render_cpu_ram"
      [] tab = 2 -> "render_storage_network"
      [] tab = 3 -> "render_peripherals"
      [] OTHER -> "nothing"

\* C23: in every state of the session the active tab index is one of 0..3,
\* starting at 0, so ui's match always renders one of the four tab views.
C23_ActiveTabInRange ==
    /\ active_tab \in 0..(Len(TABS) - 1)
    /\ ui_content(active_tab) # "nothing"
    /\ last_op = "new" => active_tab = 0

\* the last tab is active and has been drawn after keys and a refresh
C23_Witness ==
    /\ pc = "poll" /\ last_op = "draw" /\ active_tab = 3
    /\ report # start_report /\ res = "none"


\* C24: a refresh is the last thing of its iteration: the step after it is
\* the redraw of the working copy it left (or the failure of that redraw), so
\* no input event is handled and no quit key ends the session in between; a
\* quit key is handled right after the wait, ends the loop at once without
\* touching the working copy or the samplers, and nothing runs afterwards.
C24_RefreshThenRedraw ==
    /\ [][RefreshStep => (pc' = "draw" /\ res' = "none")]_vars
    /\ [][last_op = "refresh" =>
            /\ pc = "draw" /\ last_op' \in {"draw", "draw_err"}
            /\ report' = report /\ active_tab' = active_tab]_vars
    /\ [][last_op' = "quit" =>
            /\ pc = "read" /\ last_op = "poll" /\ pc' = "done"
            /\ report' = report /\ sys' = sys /\ networks' = networks
            /\ elapsed' = elapsed]_vars
    /\ [][pc # "done"]_vars

\* the refreshed working copy has been redrawn and the session waits for input
C24_Witness ==
    /\ pc = "poll" /\ last_op = "draw" /\ res = "none"
    /\ report # start_report /\ elapsed <= 250 /\ gap = elapsed
    /\ event = NoEvent


\* C25: unless the loop ends (a quit key, or a failing draw, poll or read),
\* a refresh happens again and again, whatever events keep arriving: the
\* refresh check is part of every iteration.
C25_RefreshRecurs == <>(pc = "done") \/ []<>(last_op = "refresh")

\* a refresh ran in an iteration that handled a navigation key
C25_Witness ==
    /\ last_op = "refresh" /\ pc = "draw" /\ res = "none"
    /\ active_tab # 0 /\ prev_tab = active_tab /\ report # start_report


\* run_tui has returned after run_app ended
LoopEnded == pc = "done"
TuiReturned == tui_pc = "returned" /\ LoopEnded

\* C26: whenever the loop has ended, by a failing draw, poll or read (res is
\* that error) or by a quit, run_tui returns Ok with the terminal restored:
\* raw mode disabled, alternate screen left, mouse capture disabled, cursor
\* shown; and the error of the loop, if any, has been printed.
C26_TerminalRestored ==
    /\ LoopEnded => res \in {"Ok", "Err"}
    /\ TuiReturned =>
          /\ terminal = NormalTerminal
          /\ tui_result = "Ok"
          /\ printed = (res = "Err")


(***************************************************************************)
(* Claims about the cache labels                                           *)
(***************************************************************************)
\* the entries the enumeration produced (none when there is no enumeration)
Enumerated == IF cache_params.some THEN cache_params.val ELSE <<>>
\* the positions of the entries that report level l
AtLevel(l) == {i \in DOMAIN Enumerated : Enumerated[i].level = l}
Largest(S) == CHOOSE i \in S : \A j \in S : j <= i

\* text is "<n> KB" for the number n, in decimal without a leading zero
IsKbLabel(text, n) ==
    /\ Len(text) >= 4
    /\ SubSeq(text, Len(text) - 2, Len(text)) = <<" ", "K", "B">>
    /\ LET digits == SubSeq(text, 1, Len(text) - 3)
       IN  /\ \A i \in DOMAIN digits : is_digit(digits[i])
           /\ DigitsValue(digits, 0) = n
           /\ Len(digits) > 1 => digits[1] # "0"

\* what the claim says level l holds for the enumerated entries
LabelDescribed(label, l) ==
    IF AtLevel(l) = {} THEN label = None
    ELSE LET last == Enumerated[Largest(AtLevel(l))]
         IN  /\ label.some
             /\ IsKbLabel(label.val,
                          (last.associativity * last.physical_line_partitions
                              * last.coherency_line_size * last.sets) \div 1024)

\* C27: get_cpu_caches returns for each level 1, 2, 3 the label "<n> KB" of
\* the last enumerated entry of that level, n being ways * partitions *
\* line_size * sets divided by 1024 (rounded down), and None for a level no
\* entry reports; entries of other levels change nothing.
C27_LabelOfLastEntryPerLevel ==
    cache_pc = "done" =>
        /\ LabelDescribed(cache_labels.l1, 1)
        /\ LabelDescribed(cache_labels.l2, 2)
        /\ LabelDescribed(cache_labels.l3, 3)

\* two entries of level 1 with different sizes: the second one's label stays
C27_Witness ==
    /\ cache_pc = "done" /\ cache_params.some
    /\ Len(cache_params.val) = 2
    /\ cache_params.val[1].level = 1 /\ cache_params.val[2].level = 1
    /\ size_kb(cache_params.val[1]) = 32 /\ size_kb(cache_params.val[2]) = 1536
    /\ cache_labels.l1 = Some(<<"1", "5", "3", "6", " ", "K", "B">>)
    /\ cache_labels.l2 = None


====
